---- MODULE Spec2Model ----
(***************************************************************************)
(* Opportunity-scoring core of the padel repository: CityAggregator        *)
(* (src/analyzers/aggregator.py), DistanceCalculator                       *)
(* (src/analyzers/distance.py) and OpportunityScorer                       *)
(* (src/analyzers/scorer.py) over Facility / CityStats records, and the    *)
(* driver that chains them (scripts/process_data.py).                      *)
(*                                                                         *)
(* Number representation                                                   *)
(*   - coordinates are fixed-point integers in units of 1e-4 degree        *)
(*     (37.0194 is 370194); ratings are integers in tenths (4.5 is 45);    *)
(*   - a Python float produced by a division (mean, median, per-capita)    *)
(*     is the exact fraction [n, d] in lowest terms with d > 0;            *)
(*   - geodesic results are integers in units of 4 m (1/250 km);           *)
(*     round(x, 2) maps them to hundredths of a kilometre;                 *)
(*   - a distance stored on a row is an integer in hundredths of a         *)
(*     kilometre; weights and scores are exact sums c + n / (d + u * 1e-6) *)
(*     (see "Floats of the scorer"); float rounding is not modelled;       *)
(*   - Optional[T] is a sequence: None is << >>, a present x is << x >>.   *)
(* City names are ASCII transliterations of the dictionary keys.           *)
(***************************************************************************)
EXTENDS Integers, Sequences, FiniteSets, TLC

VARIABLES facilities, city_stats, nearest, radius, scorer, saved, summary, pc, cache

vars == <<facilities, city_stats, nearest, radius, scorer, saved, summary, pc, cache>>

\* Longest facility list explored.
MaxFacilities == 3

None == << >>
Some(x) == << x >>

(***************************************************************************)
(* Exact fractions standing for Python floats.                            *)
(***************************************************************************)
Abs(x) == IF x < 0 THEN -x ELSE x

RECURSIVE GCD(_, _)
GCD(a, b) == IF b = 0 THEN a ELSE GCD(b, a % b)

Frac(n, d) ==
    LET g == GCD(Abs(n), d)
    IN  [n |-> n \div g, d |-> d \div g]

FracOf(i) == [n |-> i, d |-> 1]

RECURSIVE SumSeq(_)
SumSeq(s) == IF s = << >> THEN 0 ELSE Head(s) + SumSeq(Tail(s))

RECURSIVE Insert(_, _)
Insert(x, s) ==
    IF s = << >> THEN << x >>
    ELSE IF x <= Head(s) THEN << x >> \o s
    ELSE << Head(s) >> \o Insert(x, Tail(s))

RECURSIVE SortAsc(_)
SortAsc(s) == IF s = << >> THEN << >> ELSE Insert(Head(s), SortAsc(Tail(s)))

RECURSIVE MinSeq(_)
MinSeq(s) ==
    IF Len(s) = 1 THEN s[1]
    ELSE LET m == MinSeq(Tail(s)) IN IF s[1] <= m THEN s[1] ELSE m

\* pandas Series.mean() of a non-empty integer column
Mean(s) == Frac(SumSeq(s), Len(s))

\* pandas Series.median(): middle element, or the mean of the two middle ones
Median(s) ==
    LET o == SortAsc(s)
        k == Len(s)
    IN  IF k % 2 = 1 THEN FracOf(o[(k + 1) \div 2])
        ELSE Frac(o[k \div 2] + o[k \div 2 + 1], 2)

(***************************************************************************)
(* Floats of the scorer, kept exact.  A number is                          *)
(*     c + the sum over its terms of n / (d + u * 1e-6)                    *)
(* with c a fraction and n, d, u integers (d, u > 0, n # 0): a term is one *)
(* min-max quotient, whose divisor carries the epsilon of the code.        *)
(***************************************************************************)
Const(i) == [c |-> FracOf(i), terms |-> << >>]

ConstFrac(n, d) == [c |-> Frac(n, d), terms |-> << >>]

FracAdd(a, b) == Frac(a.n * b.d + b.n * a.d, a.d * b.d)

FracMul(a, b) == Frac(a.n * b.n, a.d * b.d)

FracLeq(a, b) == a.n * b.d <= b.n * a.d

\* n / (d + u * 1e-6) in lowest terms
Term(n, d, u) ==
    LET g == GCD(Abs(n), GCD(d, u))
    IN  [n |-> n \div g, d |-> d \div g, u |-> u \div g]

\* the number (n / den) / (d / den + 1e-6)
Quotient(n, d, den) ==
    IF n = 0 THEN Const(0)
    ELSE [c |-> FracOf(0), terms |-> << Term(n, d, den) >>]

\* t * f for a fraction f, cancelling before multiplying
TermScale(t, f) ==
    LET g == GCD(Abs(f.n), GCD(t.d, t.u))
    IN  Term(t.n * (f.n \div g), (t.d \div g) * f.d, (t.u \div g) * f.d)

NumScale(x, f) ==
    [c |-> FracMul(x.c, f),
     terms |-> SelectSeq([ i \in 1..Len(x.terms) |-> TermScale(x.terms[i], f) ],
                         LAMBDA t : t.n # 0)]

NumAdd(x, y) == [c |-> FracAdd(x.c, y.c), terms |-> x.terms \o y.terms]

\* variant: the inversion taken as -x
Negated(x) ==
    [c |-> [n |-> -x.c.n, d |-> x.c.d],
     terms |-> [ i \in 1..Len(x.terms) |-> [x.terms[i] EXCEPT !.n = -@] ]]

\* 1.0 - x
OneMinus(x) ==
    [c |-> FracAdd(FracOf(1), [n |-> -x.c.n, d |-> x.c.d]),
     terms |-> [ i \in 1..Len(x.terms) |-> [x.terms[i] EXCEPT !.n = -@] ]]

(***************************************************************************)
(* Reference tables of CityAggregator.                                     *)
(***************************************************************************)
\* keys of CITY_POPULATIONS in dictionary (insertion) order
RosterOrder ==
    << "Albufeira", "Aljezur", "Castro Marim", "Faro", "Lagoa", "Lagos",
       "Loule", "Monchique", "Olhao", "Portimao", "Sao Bras De Alportel",
       "Silves", "Tavira", "Vila Do Bispo", "Vila Real De Santo Antonio" >>

Roster == { RosterOrder[i] : i \in 1..Len(RosterOrder) }

CITY_POPULATIONS ==
    [ c \in Roster |->
        CASE c = "Albufeira" -> 42388
          [] c = "Aljezur" -> 5347
          [] c = "Castro Marim" -> 6747
          [] c = "Faro" -> 64560
          [] c = "Lagoa" -> 23676
          [] c = "Lagos" -> 31049
          [] c = "Loule" -> 72162
          [] c = "Monchique" -> 5958
          [] c = "Olhao" -> 45396
          [] c = "Portimao" -> 59896
          [] c = "Sao Bras De Alportel" -> 11381
          [] c = "Silves" -> 37126
          [] c = "Tavira" -> 26167
          [] c = "Vila Do Bispo" -> 5717
          [] c = "Vila Real De Santo Antonio" -> 19156 ]

CITY_CENTERS ==
    [ c \in Roster |->
        CASE c = "Albufeira" -> [lat |-> 370885, lng |-> -82475]
          [] c = "Aljezur" -> [lat |-> 373183, lng |-> -88042]
          [] c = "Castro Marim" -> [lat |-> 372169, lng |-> -74472]
          [] c = "Faro" -> [lat |-> 370194, lng |-> -79322]
          [] c = "Lagoa" -> [lat |-> 371333, lng |-> -84500]
          [] c = "Lagos" -> [lat |-> 371028, lng |-> -86732]
          [] c = "Loule" -> [lat |-> 371376, lng |-> -80222]
          [] c = "Monchique" -> [lat |-> 373167, lng |-> -85556]
          [] c = "Olhao" -> [lat |-> 370267, lng |-> -78411]
          [] c = "Portimao" -> [lat |-> 371391, lng |-> -85372]
          [] c = "Sao Bras De Alportel" -> [lat |-> 371525, lng |-> -78836]
          [] c = "Silves" -> [lat |-> 371875, lng |-> -84383]
          [] c = "Tavira" -> [lat |-> 371267, lng |-> -76486]
          [] c = "Vila Do Bispo" -> [lat |-> 370833, lng |-> -89122]
          [] c = "Vila Real De Santo Antonio" -> [lat |-> 371961, lng |-> -74167] ]

(***************************************************************************)
(* Facility records offered to the pipeline.  Facility.city is already     *)
(* normalised (stripped, Title Case) by the model's validator.             *)
(***************************************************************************)
\* city labels of the explored facilities: two roster cities, two others
FacilityCities == { "Albufeira", "Faro", "Ayamonte", "Sevilha" }

\* location and social metrics of the explored facilities; the third one
\* stands exactly on the reference centre of Monchique
FacilityProfiles ==
    { [latitude |-> 370150, longitude |-> -79300, rating |-> None,     review_count |-> 0],
      [latitude |-> 370900, longitude |-> -82500, rating |-> Some(0),  review_count |-> 3],
      [latitude |-> 373167, longitude |-> -85556, rating |-> Some(45), review_count |-> 10] }

Facility(c, p) ==
    [city |-> c, latitude |-> p.latitude, longitude |-> p.longitude,
     rating |-> p.rating, review_count |-> p.review_count]

\* the facilities a later load of the raw file can hold in addition: a rated
\* one in a roster city and an unrated one outside the roster
ReloadedFacilities ==
    { Facility("Faro", [latitude |-> 373167, longitude |-> -85556,
                        rating |-> Some(45), review_count |-> 10]),
      Facility("Sevilha", [latitude |-> 370150, longitude |-> -79300,
                           rating |-> None, review_count |-> 0]) }

\* every city name a row or a query can carry, in the order groupby sorts them
SortedCityNames ==
    << "Albufeira", "Aljezur", "Ayamonte", "Castro Marim", "Faro", "Lagoa",
       "Lagos", "Loule", "Monchique", "Olhao", "Portimao",
       "Sao Bras De Alportel", "Sevilha", "Silves", "Tavira", "Vila Do Bispo",
       "Vila Real De Santo Antonio" >>

\* city arguments of the direct distance queries
QueryCities == FacilityCities \cup { "Monchique" }

\* population arguments of the direct radius queries: the values around the
\* two thresholds, zero, a negative one, and the roster's populations
QueryPopulations ==
    { -1, 0, 19999, 20000, 20001, 49999, 50000, 50001 }
      \cup { CITY_POPULATIONS[c] : c \in Roster }

\* [f for f in fs if f.city == c]
InCity(fs, c) == SelectSeq(fs, LAMBDA f : f.city = c)

\* [f for f in fs if f.city != c]
NotInCity(fs, c) == SelectSeq(fs, LAMBDA f : f.city # c)

Column(fs, field) == [ i \in 1..Len(fs) |-> fs[i][field] ]

\* variant: a missing rating counts as 0 (fillna(0))
FillNaZero(col) ==
    [ i \in 1..Len(col) |-> IF col[i] = None THEN 0 ELSE col[i][1] ]

\* city_group['rating'].dropna()
DropNa(col) ==
    LET present == SelectSeq(col, LAMBDA r : r # None)
    IN  [ i \in 1..Len(present) |-> present[i][1] ]

(***************************************************************************)
(* CityAggregator.aggregate                                                *)
(***************************************************************************)
\* variant: count() in place of sum()
ReviewCount(city_group) == Len(Column(city_group, "review_count"))

\* int(city_group['review_count'].sum())
ReviewSum(city_group) == SumSeq(Column(city_group, "review_count"))

\* variant: the first facility of the group in place of the mean
GroupCenterFirst(city_group) ==
    [lat |-> FracOf(city_group[1].latitude),
     lng |-> FracOf(city_group[1].longitude)]

\* city_group['latitude'].mean(), city_group['longitude'].mean()
GroupCenter(city_group) ==
    [lat |-> Mean(Column(city_group, "latitude")),
     lng |-> Mean(Column(city_group, "longitude"))]

\* self.CITY_POPULATIONS.get(city_name, None)
PopulationOf(city_name) ==
    IF city_name \in Roster THEN Some(CITY_POPULATIONS[city_name]) ELSE None

\* variant: the rate per 1,000 residents
PerCapitaPerThousand(total_facilities, population) ==
    IF population # None
    THEN Some(Frac(total_facilities * 1000, population[1]))
    ELSE None

\* (total_facilities / population) * 10000, or None without a population
PerCapita(total_facilities, population) ==
    IF population # None
    THEN Some(Frac(total_facilities * 10000, population[1]))
    ELSE None

\* body of the groupby loop: the statistics of one city group
GroupStats(city_name, city_group) ==
    LET ratings == DropNa(Column(city_group, "rating"))
        total_facilities == Len(city_group)
        center == GroupCenter(city_group)
        population == PopulationOf(city_name)
    IN  [ city |-> city_name,
          total_facilities |-> total_facilities,
          avg_rating |-> IF Len(ratings) > 0 THEN Some(Mean(ratings)) ELSE None,
          median_rating |-> IF Len(ratings) > 0 THEN Some(Median(ratings)) ELSE None,
          total_reviews |-> ReviewSum(city_group),
          center_lat |-> center.lat,
          center_lng |-> center.lng,
          population |-> population,
          facilities_per_capita |-> PerCapita(total_facilities, population),
          avg_distance_to_nearest |-> None,
          opportunity_score |-> Const(0), population_weight |-> Const(0),
          saturation_weight |-> Const(0), quality_gap_weight |-> Const(0),
          geographic_gap_weight |-> Const(0) ]

\* variant: the default row leaves the per-capita rate unset
ZeroFacilityStatsUnsetRate(city_name) ==
    [ city |-> city_name,
      total_facilities |-> 0,
      avg_rating |-> None,
      median_rating |-> None,
      total_reviews |-> 0,
      center_lat |-> FracOf(CITY_CENTERS[city_name].lat),
      center_lng |-> FracOf(CITY_CENTERS[city_name].lng),
      population |-> Some(CITY_POPULATIONS[city_name]),
      facilities_per_capita |-> None,
      avg_distance_to_nearest |-> None,
      opportunity_score |-> Const(0), population_weight |-> Const(0),
      saturation_weight |-> Const(0), quality_gap_weight |-> Const(0),
      geographic_gap_weight |-> Const(0) ]

\* the default row of a roster city without facilities
ZeroFacilityStats(city_name) ==
    [ city |-> city_name,
      total_facilities |-> 0,
      avg_rating |-> None,
      median_rating |-> None,
      total_reviews |-> 0,
      center_lat |-> FracOf(CITY_CENTERS[city_name].lat),
      center_lng |-> FracOf(CITY_CENTERS[city_name].lng),
      population |-> Some(CITY_POPULATIONS[city_name]),
      facilities_per_capita |-> Some(FracOf(0)),
      avg_distance_to_nearest |-> None,
      opportunity_score |-> Const(0), population_weight |-> Const(0),
      saturation_weight |-> Const(0), quality_gap_weight |-> Const(0),
      geographic_gap_weight |-> Const(0) ]

\* keys of facility_stats: the groupby keys, sorted
GroupKeys(fs) == SelectSeq(SortedCityNames, LAMBDA c : InCity(fs, c) # << >>)

\* step 1: the dictionary of group statistics
facility_stats(fs) ==
    LET keys == GroupKeys(fs)
    IN  [ c \in { keys[i] : i \in 1..Len(keys) } |-> GroupStats(c, InCity(fs, c)) ]

\* variant: rows only for the roster cities that have a group
roster_rows_grouped_only(fs) ==
    LET stats == facility_stats(fs)
        present == SelectSeq(RosterOrder, LAMBDA c : c \in DOMAIN stats)
    IN  [ i \in 1..Len(present) |-> stats[present[i]] ]

\* step 2: one row per key of CITY_POPULATIONS
roster_rows(fs) ==
    LET stats == facility_stats(fs)
    IN  [ i \in 1..Len(RosterOrder) |->
            IF RosterOrder[i] \in DOMAIN stats
            THEN stats[RosterOrder[i]]
            ELSE ZeroFacilityStats(RosterOrder[i]) ]

\* variant: step 3 left out, cities outside the roster are dropped
unknown_rows_dropped(fs) == << >>

\* step 3: the rows of the grouped cities outside CITY_POPULATIONS
unknown_rows(fs) ==
    LET stats == facility_stats(fs)
        unknown == SelectSeq(GroupKeys(fs), LAMBDA c : c \notin Roster)
    IN  [ i \in 1..Len(unknown) |-> stats[unknown[i]] ]

aggregate(fs) == roster_rows(fs) \o unknown_rows(fs)

(***************************************************************************)
(* DistanceCalculator                                                      *)
(***************************************************************************)
\* Newton's descent to the integer square root of x from a guess g >= sqrt(x)
RECURSIVE SqrtFrom(_, _)
SqrtFrom(x, g) ==
    LET h == (g + x \div g) \div 2
    IN  IF h < g THEN SqrtFrom(x, h) ELSE g

\* length of the hypotenuse over dx and dy, rounded down
Hypot(dx, dy) ==
    IF dx + dy = 0 THEN 0 ELSE SqrtFrom(dx * dx + dy * dy, dx + dy)

\* 1e-4 degree of latitude (11.1 m) and of longitude at 37.1 N (8.88 m),
\* in thousandths of the 4 m distance unit
LatUnit == 2775
LngUnit == 2220

\* |a - b| of two fractions, as a distance along one axis
AxisDistance(a, b, unit) ==
    (Abs(a.n * b.d - b.n * a.d) * unit) \div (1000 * a.d * b.d)

\* geodesic(p, q).kilometers, in units of 4 m: the library's ellipsoidal
\* distance is taken as the local planar distance, a metric that is zero
\* exactly between equal points
Geodesic(p, q) ==
    LET dy == AxisDistance(p.lat, q.lat, LatUnit)
        dx == AxisDistance(p.lng, q.lng, LngUnit)
    IN  Hypot(dx, dy)

\* variant: round(km), to whole kilometres
Round0(d) == 100 * ((4 * d + 500) \div 1000)

\* round(km, 2): from units of 4 m to hundredths of a kilometre
Round2(d) == (4 * d + 5) \div 10

\* (f.latitude, f.longitude)
PointOf(f) == [lat |-> FracOf(f.latitude), lng |-> FracOf(f.longitude)]

\* [geodesic(center, (f.latitude, f.longitude)).kilometers for f in fs]
DistancesFrom(center, fs) ==
    [ i \in 1..Len(fs) |-> Geodesic(center, PointOf(fs[i])) ]

\* variant: the city's own facilities stay among the candidates
external_facilities_unfiltered(city, all_facilities) == all_facilities

\* filter of the facilities in other cities
external_facilities(city, all_facilities) == NotInCity(all_facilities, city)

\* variant: the position of the city's first facility stands for its centre
city_center_first(city_facilities) == PointOf(city_facilities[1])

\* (center_lat, center_lng): sum(...) / len(city_facilities) on each axis
city_center(city_facilities) ==
    [lat |-> Frac(SumSeq(Column(city_facilities, "latitude")), Len(city_facilities)),
     lng |-> Frac(SumSeq(Column(city_facilities, "longitude")), Len(city_facilities))]

calculate_distance_to_nearest(city, all_facilities) ==
    LET city_facilities == InCity(all_facilities, city)
        external == external_facilities(city, all_facilities)
    IN  IF all_facilities = << >> THEN 0
        ELSE IF city_facilities = << >> THEN 0
        ELSE IF external = << >> THEN 0
        ELSE Round2(MinSeq(DistancesFrom(city_center(city_facilities), external)))

\* reference point of a row without facilities
row_center(stats) == [lat |-> stats.center_lat, lng |-> stats.center_lng]

\* variant: every row goes through the static method
legacy_distance_for_city(stats, all_facilities) ==
    calculate_distance_to_nearest(stats.city, all_facilities)

_calculate_distance_for_city(stats, all_facilities) ==
    LET city_facilities == InCity(all_facilities, stats.city)
    IN  IF city_facilities = << >>
        THEN IF all_facilities = << >> THEN 0
             ELSE Round2(MinSeq(DistancesFrom(row_center(stats), all_facilities)))
        ELSE calculate_distance_to_nearest(stats.city, all_facilities)

\* variant: rows without facilities are passed over
calculate_distances_facility_rows_only(stats_list, all_facilities) ==
    [ i \in 1..Len(stats_list) |->
        IF stats_list[i].total_facilities = 0 THEN stats_list[i]
        ELSE [ stats_list[i] EXCEPT !.avg_distance_to_nearest =
                 Some(_calculate_distance_for_city(stats_list[i], all_facilities)) ] ]

calculate_distances(stats_list, all_facilities) ==
    [ i \in 1..Len(stats_list) |->
        [ stats_list[i] EXCEPT !.avg_distance_to_nearest =
            Some(_calculate_distance_for_city(stats_list[i], all_facilities)) ] ]

\* variant: 50,000 counted among the urban areas
travel_willingness_radius_from_50000(city_population) ==
    IF city_population >= 50000 THEN 500
    ELSE IF city_population >= 20000 THEN 1000
    ELSE 1500

\* calculate_travel_willingness_radius, in hundredths of a kilometre
calculate_travel_willingness_radius(city_population) ==
    IF city_population > 50000 THEN 500
    ELSE IF city_population >= 20000 THEN 1000
    ELSE 1500

(***************************************************************************)
(* OpportunityScorer, src/analyzers/scorer.py                              *)
(***************************************************************************)
POPULATION_WEIGHT_FACTOR == Frac(2, 10)
SATURATION_WEIGHT_FACTOR == Frac(3, 10)
QUALITY_GAP_WEIGHT_FACTOR == Frac(2, 10)
GEOGRAPHIC_GAP_WEIGHT_FACTOR == Frac(3, 10)

\* the four factors as the class attributes give them
ClassFactors ==
    [population |-> POPULATION_WEIGHT_FACTOR,
     saturation |-> SATURATION_WEIGHT_FACTOR,
     quality_gap |-> QUALITY_GAP_WEIGHT_FACTOR,
     geographic_gap |-> GEOGRAPHIC_GAP_WEIGHT_FACTOR]

\* variant: the range test of __init__ with a tolerance of 1e-3
init_loose(factors) ==
    LET total == FracAdd(FracAdd(FracAdd(factors.population, factors.saturation),
                                 factors.quality_gap), factors.geographic_gap)
    IN  IF ~(FracLeq(Frac(999, 1000), total) /\ FracLeq(total, Frac(1001, 1000)))
        THEN Some("ValueError") ELSE None

\* __init__: None when it returns, the exception when it raises
__init__(factors) ==
    LET total == FracAdd(FracAdd(FracAdd(factors.population, factors.saturation),
                                 factors.quality_gap), factors.geographic_gap)
    IN  IF ~(FracLeq(Frac(9999, 10000), total) /\ FracLeq(total, Frac(10001, 10000)))
        THEN Some("ValueError") ELSE None

\* 1 / 1e-6
EpsilonInverse == 1000000

LCM(a, b) == (a \div GCD(a, b)) * b

\* least common denominator of a set of fractions
RECURSIVE CommonDenominator(_)
CommonDenominator(vs) ==
    IF vs = { } THEN 1
    ELSE LET v == CHOOSE x \in vs : TRUE
         IN  LCM(v.d, CommonDenominator(vs \ { v }))

\* v as a count of 1/den
Numerator(v, den) == v.n * (den \div v.d)

\* min() and max() of a list, from the set of its values
Min(S) == CHOOSE m \in S : \A x \in S : m <= x

Max(S) == CHOOSE m \in S : \A x \in S : m >= x

\* span / den < 1e-6
BelowEpsilon(span, den) ==
    /\ span <= den \div EpsilonInverse
    /\ span * EpsilonInverse < den

\* the summary of a list: counts are its valid values as counts of 1/den
Summary(size, valid, den, counts) ==
    [ size |-> size,
      valid |-> valid,
      den |-> den,
      min_val |-> IF counts = { } THEN 0 ELSE Min(counts),
      max_val |-> IF counts = { } THEN 0 ELSE Max(counts) ]

SummaryOf(size, valid, den, values) ==
    Summary(size, valid, den, { Numerator(v, den) : v \in values })

\* variant: the extrema are those of the list up to its first None entry
ValuesOfLeadingRun(all_values, values) ==
    SummaryOf(Len(all_values),
              Cardinality({ i \in DOMAIN all_values : all_values[i] # None }),
              CommonDenominator(values),
              { all_values[i][1] :
                  i \in { k \in DOMAIN all_values :
                            \A m \in 1..k : all_values[m] # None } })

\* What _normalize reads of all_values: its length, the number of entries
\* that are not None, and their minimum and maximum as counts of 1/den.
\* calculate_scores passes each list in this form, so that the filter and the
\* extrema are evaluated once per list instead of once per row.
ValuesOf(all_values, values) ==
    SummaryOf(Len(all_values),
              Cardinality({ i \in DOMAIN all_values : all_values[i] # None }),
              CommonDenominator(values), values)

\* variant: None counts as 0.0 among the valid values
ValuesNoneAsZero(all_values) ==
    ValuesOf([ i \in DOMAIN all_values |->
                 IF all_values[i] = None THEN Some(FracOf(0)) ELSE all_values[i] ],
             { IF all_values[i] = None THEN FracOf(0) ELSE all_values[i][1] :
                 i \in DOMAIN all_values })

Values(all_values) ==
    ValuesOf(all_values,
             { all_values[i][1] : i \in { j \in DOMAIN all_values : all_values[j] # None } })

\* _normalize: min-max normalisation with the neutral cases
_normalize(value, all_values, invert) ==
    IF value = None \/ all_values.size = 0 THEN ConstFrac(1, 2)
    ELSE IF all_values.valid = 0 \/ all_values.valid = 1 THEN ConstFrac(1, 2)
    ELSE IF BelowEpsilon(all_values.max_val - all_values.min_val, all_values.den)
         THEN ConstFrac(1, 2)
    ELSE LET normalized ==
                 Quotient(Numerator(value[1], all_values.den) - all_values.min_val,
                          all_values.max_val - all_values.min_val, all_values.den)
         IN  IF invert THEN OneMinus(normalized) ELSE normalized

\* variant: the population normalisation inverted as well
normalize_population_inverted(value, all_values) == _normalize(value, all_values, TRUE)

_normalize_population(value, all_values) == _normalize(value, all_values, FALSE)

\* variant: the saturation normalisation not inverted
normalize_saturation_direct(value, all_values) == _normalize(value, all_values, FALSE)

_normalize_saturation(value, all_values) == _normalize(value, all_values, TRUE)

_normalize_quality_gap(value, all_values) == _normalize(value, all_values, TRUE)

\* variant: each bucket closed at its upper end
geographic_gap_closed_above(value) ==
    IF value = None \/ value[1] < 0 THEN ConstFrac(1, 2)
    ELSE IF value[1] <= 500 THEN ConstFrac(1, 4)
    ELSE IF value[1] <= 1000 THEN ConstFrac(1, 2)
    ELSE IF value[1] <= 2000 THEN ConstFrac(3, 4)
    ELSE Const(1)

\* distances are hundredths of a kilometre
_normalize_geographic_gap(value) ==
    IF value = None \/ value[1] < 0 THEN ConstFrac(1, 2)
    ELSE IF value[1] < 500 THEN ConstFrac(1, 4)
    ELSE IF value[1] < 1000 THEN ConstFrac(1, 2)
    ELSE IF value[1] < 2000 THEN ConstFrac(3, 4)
    ELSE Const(1)

\* Optional[int] read as Optional[float]
FloatOfInt(v) == IF v = None THEN None ELSE Some(FracOf(v[1]))

\* a mean of ratings kept in tenths, read in rating points
FloatOfTenths(v) == IF v = None THEN None ELSE Some(Frac(v[1].n, v[1].d * 10))

\* variant: the four weights count equally
opportunity_score_equal_factors(stats) ==
    [ stats EXCEPT !.opportunity_score =
        NumScale(NumAdd(NumAdd(NumAdd(NumScale(stats.population_weight, Frac(25, 100)),
                                      NumScale(stats.saturation_weight, Frac(25, 100))),
                               NumScale(stats.quality_gap_weight, Frac(25, 100))),
                        NumScale(stats.geographic_gap_weight, Frac(25, 100))),
                 FracOf(100)) ]

\* CityStats.calculate_opportunity_score
calculate_opportunity_score(stats) ==
    [ stats EXCEPT !.opportunity_score =
        NumScale(NumAdd(NumAdd(NumAdd(NumScale(stats.population_weight, Frac(2, 10)),
                                      NumScale(stats.saturation_weight, Frac(3, 10))),
                               NumScale(stats.quality_gap_weight, Frac(2, 10))),
                        NumScale(stats.geographic_gap_weight, Frac(3, 10))),
                 FracOf(100)) ]

\* variant: the rows come back in reverse order
score_each_reversed(stats_list, populations, saturations, ratings) ==
    [ i \in 1..Len(stats_list) |->
        calculate_opportunity_score(
          [ stats_list[Len(stats_list) + 1 - i] EXCEPT
              !.population_weight =
                  _normalize_population(
                    FloatOfInt(stats_list[Len(stats_list) + 1 - i].population), populations),
              !.saturation_weight =
                  _normalize_saturation(
                    stats_list[Len(stats_list) + 1 - i].facilities_per_capita, saturations),
              !.quality_gap_weight =
                  _normalize_quality_gap(
                    FloatOfTenths(stats_list[Len(stats_list) + 1 - i].avg_rating), ratings),
              !.geographic_gap_weight =
                  _normalize_geographic_gap(
                    stats_list[Len(stats_list) + 1 - i].avg_distance_to_nearest) ]) ]

\* the loop of calculate_scores over the rows
score_each(stats_list, populations, saturations, ratings) ==
    [ i \in 1..Len(stats_list) |->
        calculate_opportunity_score(
          [ stats_list[i] EXCEPT
              !.population_weight =
                  _normalize_population(FloatOfInt(stats_list[i].population), populations),
              !.saturation_weight =
                  _normalize_saturation(stats_list[i].facilities_per_capita, saturations),
              !.quality_gap_weight =
                  _normalize_quality_gap(FloatOfTenths(stats_list[i].avg_rating), ratings),
              !.geographic_gap_weight =
                  _normalize_geographic_gap(stats_list[i].avg_distance_to_nearest) ]) ]

\* variant: a list of fewer than two rows is returned as it is
calculate_scores_from_two(stats_list) ==
    IF Len(stats_list) < 2 THEN stats_list
    ELSE score_each(stats_list,
           Values([ i \in 1..Len(stats_list) |-> FloatOfInt(stats_list[i].population) ]),
           Values([ i \in 1..Len(stats_list) |-> stats_list[i].facilities_per_capita ]),
           Values([ i \in 1..Len(stats_list) |-> FloatOfTenths(stats_list[i].avg_rating) ]))

calculate_scores(stats_list) ==
    IF stats_list = << >> THEN stats_list
    ELSE score_each(stats_list,
           Values([ i \in 1..Len(stats_list) |-> FloatOfInt(stats_list[i].population) ]),
           Values([ i \in 1..Len(stats_list) |-> stats_list[i].facilities_per_capita ]),
           Values([ i \in 1..Len(stats_list) |-> FloatOfTenths(stats_list[i].avg_rating) ]))

(***************************************************************************)
(* Pipeline driver, scripts/process_data.py                                *)
(***************************************************************************)
\* variant: the geographic step passes over the rows without facilities
calculate_geographic_metrics_facility_rows_only(stats_list, all_facilities) ==
    [ i \in 1..Len(stats_list) |->
        IF stats_list[i].total_facilities = 0 THEN stats_list[i]
        ELSE [ stats_list[i] EXCEPT !.avg_distance_to_nearest =
                 Some(calculate_distance_to_nearest(stats_list[i].city, all_facilities)) ] ]

\* the geographic step of the driver: the static method for every row
calculate_geographic_metrics(stats_list, all_facilities) ==
    [ i \in 1..Len(stats_list) |->
        [ stats_list[i] EXCEPT !.avg_distance_to_nearest =
            Some(calculate_distance_to_nearest(stats_list[i].city, all_facilities)) ] ]

\* floor(q + r * 10^digits / d) for 0 <= r < d, by long division
RECURSIVE LongDivision(_, _, _, _)
LongDivision(q, r, d, digits) ==
    IF digits = 0 THEN q
    ELSE LongDivision(q * 10 + (r * 10) \div d, (r * 10) % d, d, digits - 1)

\* floor(n / d) in units of 1e-6, for n >= 0
Millionths(n, d) == LongDivision(n \div d, n % d, d, 6)

\* |n| / (d + u * 1e-6) lies in [low, high], in the same units, m being
\* floor(|n| / d): n/d - (n/d) * (u/d) * 1e-6 <= n / (d + u * 1e-6) <= n/d
TermBoundsOf(m, t) ==
    [ low |-> m - (Abs(t.n) \div t.d + 1) * (t.u \div t.d + 1),
      high |-> m + 1 ]

TermBounds(t) == TermBoundsOf(Millionths(Abs(t.n), t.d), t)

\* the interval of a term with its sign
SignedBounds(n, bounds) ==
    IF n > 0 THEN bounds ELSE [low |-> -bounds.high, high |-> -bounds.low]

AddBounds(a, b) == [low |-> a.low + b.low, high |-> a.high + b.high]

\* the interval of the sum of the terms
RECURSIVE TermsBounds(_)
TermsBounds(terms) ==
    IF terms = << >> THEN [low |-> 0, high |-> 0]
    ELSE AddBounds(SignedBounds(Head(terms).n, TermBounds(Head(terms))),
                   TermsBounds(Tail(terms)))

\* a float of the scorer as the sort sees it: an interval holding its value;
\* a number without terms is known exactly when its constant has at most
\* six decimals
FloatKeyOf(m, bounds, x) ==
    [ low |-> m + bounds.low,
      high |-> m + bounds.high + (IF 1000000 % x.c.d = 0 THEN 0 ELSE 1),
      value |-> x ]

FloatKey(x) == FloatKeyOf(Millionths(x.c.n, x.c.d), TermsBounds(x.terms), x)

\* a/b + c/d over the least common denominator
FracSum(a, b) ==
    Frac(a.n * (LCM(a.d, b.d) \div a.d) + b.n * (LCM(a.d, b.d) \div b.d),
         LCM(a.d, b.d))

\* the value of a float with every 1e-6 left out: c plus the sum of n/d
RECURSIVE Principal(_, _)
Principal(c, terms) ==
    IF terms = << >> THEN c
    ELSE Principal(FracSum(c, Frac(Head(terms).n, Head(terms).d)), Tail(terms))

\* n/d - n / (d + u * 1e-6) = (n/d) * (u/d) * 1e-6 / (1 + (u/d) * 1e-6) for
\* n > 0, in units of 1e-12 and as an interval; a is n/d in units of 1e-6 and
\* up/down is u/d in lowest terms
ExcessBoundsOf(a, up, down, t) ==
    [ low |-> (a \div down) * up
                - (((a \div down + 1) * up) \div 1000000 + 1) * (t.u \div t.d + 1),
      high |-> (a \div down + 1) * up ]

ExcessBounds(t) ==
    ExcessBoundsOf(Millionths(Abs(t.n), t.d), t.u \div GCD(t.u, t.d),
                   t.d \div GCD(t.u, t.d), t)

\* what the terms add to the principal value, in units of 1e-12: a positive
\* term lies below its n/d, a negative one above
RECURSIVE Excess(_)
Excess(terms) ==
    IF terms = << >> THEN [low |-> 0, high |-> 0]
    ELSE AddBounds(SignedBounds(-Head(terms).n, ExcessBounds(Head(terms))),
                   Excess(Tail(terms)))

\* x < y for two floats that 1e-6 alone tells apart
CloseBelow(x, y) ==
    /\ Principal(x.c, x.terms) = Principal(y.c, y.terms)
    /\ Excess(x.terms).high < Excess(y.terms).low

\* a < b on two keys: equal numbers are not below each other; intervals that
\* overlap are told apart by the part of the numbers that 1e-6 makes
KeyBelow(a, b) ==
    /\ a.value # b.value
    /\ \/ a.high < b.low
       \/ a.low <= b.high /\ CloseBelow(a.value, b.value)

\* variant: ascending order, reverse=True left out
RECURSIVE insert_ascending(_, _, _)
insert_ascending(stats, key, sorted) ==
    IF sorted = << >> THEN << [stats |-> stats, key |-> key] >>
    ELSE IF KeyBelow(key, Head(sorted).key)
         THEN << [stats |-> stats, key |-> key] >> \o sorted
         ELSE << Head(sorted) >> \o insert_ascending(stats, key, Tail(sorted))

\* the place of one more row in a list sorted in descending order: behind
\* every row that is not below it, so that equal rows keep their order
RECURSIVE insert_descending(_, _, _)
insert_descending(stats, key, sorted) ==
    IF sorted = << >> THEN << [stats |-> stats, key |-> key] >>
    ELSE IF KeyBelow(Head(sorted).key, key)
         THEN << [stats |-> stats, key |-> key] >> \o sorted
         ELSE << Head(sorted) >> \o insert_descending(stats, key, Tail(sorted))

RECURSIVE sort_from(_, _)
sort_from(sorted, rest) ==
    IF rest = << >> THEN sorted
    ELSE sort_from(insert_descending(Head(rest), FloatKey(Head(rest).opportunity_score),
                                     sorted),
                   Tail(rest))

\* city_stats.sort(key=lambda s: s.opportunity_score, reverse=True)
sort(stats_list) == Column(sort_from(<< >>, stats_list), "stats")

\* s.model_dump(), f.to_dict(): the fields of a record, one CSV line each
model_dump(stats) == stats

\* outcomes of save_processed_data: both files written, the directory or the
\* first file refused, the second file refused after the first was written;
\* a file that is refused keeps what it held
SaveOutcomes == { "saved", "no_file", "facilities_only" }

\* the processed directory before any run: neither file exists
NoFiles == [facilities |-> None, city_stats |-> None]

\* the two files after save_processed_data, from the files before it
save_processed_data(files, all_facilities, stats_list, outcome) ==
    [ facilities |-> IF outcome = "no_file" THEN files.facilities ELSE Some(all_facilities),
      city_stats |-> IF outcome = "saved"
                     THEN Some([ i \in 1..Len(stats_list) |-> model_dump(stats_list[i]) ])
                     ELSE files.city_stats ]

\* display_summary: the rows it prints, city_stats[:5], in the order it
\* prints them
display_summary(stats_list) ==
    SubSeq(stats_list, 1, IF Len(stats_list) < 5 THEN Len(stats_list) ELSE 5)

(***************************************************************************)
(* Exceptions.  An operator named ..._raises holds when the function it    *)
(* stands for leaves through an exception instead of returning: each       *)
(* disjunct is one operation that can fail, under the conditions that lead *)
(* to it.                                                                  *)
(***************************************************************************)
\* geodesic() rejects a latitude outside [-90, 90] (ValueError)
BadLatitude(lat) == Abs(lat.n) > 900000 * lat.d

\* aggregate: total_facilities / population (ZeroDivisionError),
\* CITY_CENTERS[city_name] (KeyError), CityStats(...) with avg_rating outside
\* [0, 5] or a negative population or review total (ValidationError)
aggregate_raises(fs) ==
    \/ \E c \in Roster : InCity(fs, c) # << >> /\ CITY_POPULATIONS[c] = 0
    \/ \E c \in Roster : InCity(fs, c) = << >> /\ c \notin DOMAIN CITY_CENTERS
    \/ \E c \in Roster : CITY_POPULATIONS[c] < 0
    \/ \E i \in 1..Len(GroupKeys(fs)) :
          \/ ReviewSum(InCity(fs, GroupKeys(fs)[i])) < 0
          \/ /\ DropNa(Column(InCity(fs, GroupKeys(fs)[i]), "rating")) # << >>
             /\ \/ SumSeq(DropNa(Column(InCity(fs, GroupKeys(fs)[i]), "rating"))) < 0
                \/ SumSeq(DropNa(Column(InCity(fs, GroupKeys(fs)[i]), "rating")))
                     > 50 * Len(DropNa(Column(InCity(fs, GroupKeys(fs)[i]), "rating")))

\* calculate_distance_to_nearest, once the three early returns are passed:
\* min() of a distance list as empty as the list it is built from, or a
\* latitude that geodesic() rejects
calculate_distance_to_nearest_raises(city, all_facilities) ==
    /\ all_facilities # << >>
    /\ InCity(all_facilities, city) # << >>
    /\ external_facilities(city, all_facilities) # << >>
    /\ \/ Len(external_facilities(city, all_facilities)) = 0
       \/ BadLatitude(Frac(SumSeq(Column(InCity(all_facilities, city), "latitude")),
                           Len(InCity(all_facilities, city))))
       \/ \E k \in 1..Len(all_facilities) : BadLatitude(FracOf(all_facilities[k].latitude))

\* _calculate_distance_for_city: the same for a row without facilities
\* measured from its own centre, the static method otherwise
_calculate_distance_for_city_raises(stats, all_facilities) ==
    IF InCity(all_facilities, stats.city) = << >>
    THEN /\ all_facilities # << >>
         /\ \/ Len(all_facilities) = 0
            \/ BadLatitude(stats.center_lat)
            \/ \E k \in 1..Len(all_facilities) : BadLatitude(FracOf(all_facilities[k].latitude))
    ELSE calculate_distance_to_nearest_raises(stats.city, all_facilities)

calculate_distances_raises(stats_list, all_facilities) ==
    \E i \in 1..Len(stats_list) :
        _calculate_distance_for_city_raises(stats_list[i], all_facilities)

calculate_geographic_metrics_raises(stats_list, all_facilities) ==
    \E i \in 1..Len(stats_list) :
        calculate_distance_to_nearest_raises(stats_list[i].city, all_facilities)

\* variant: the None entries stay in valid_values, and min() meets them
normalize_raises_unfiltered(value, all_values) ==
    /\ ~(value = None \/ all_values.size = 0)
    /\ all_values.valid < all_values.size

\* _normalize: past the two neutral returns, min() of an empty valid_values
\* (ValueError), value - min_val with value None (TypeError), or a divisor
\* max_val - min_val + 1e-6 equal to 0 (ZeroDivisionError)
_normalize_raises(value, all_values) ==
    /\ ~(value = None \/ all_values.size = 0)
    /\ ~(all_values.valid = 0 \/ all_values.valid = 1)
    /\ \/ all_values.valid = 0
       \/ value = None
       \/ /\ ~BelowEpsilon(all_values.max_val - all_values.min_val, all_values.den)
          /\ all_values.den % EpsilonInverse = 0
          /\ all_values.max_val - all_values.min_val = -(all_values.den \div EpsilonInverse)

\* _normalize_geographic_gap: value < 0 with value None (TypeError), past
\* the test for None
_normalize_geographic_gap_raises(value) ==
    /\ ~(value = None)
    /\ value = None

score_each_raises(stats_list, populations, saturations, ratings) ==
    \E i \in 1..Len(stats_list) :
        \/ _normalize_raises(FloatOfInt(stats_list[i].population), populations)
        \/ _normalize_raises(stats_list[i].facilities_per_capita, saturations)
        \/ _normalize_raises(FloatOfTenths(stats_list[i].avg_rating), ratings)
        \/ _normalize_geographic_gap_raises(stats_list[i].avg_distance_to_nearest)

calculate_scores_raises(stats_list) ==
    /\ stats_list # << >>
    /\ score_each_raises(stats_list,
         Values([ i \in 1..Len(stats_list) |-> FloatOfInt(stats_list[i].population) ]),
         Values([ i \in 1..Len(stats_list) |-> stats_list[i].facilities_per_capita ]),
         Values([ i \in 1..Len(stats_list) |-> FloatOfTenths(stats_list[i].avg_rating) ]))

(***************************************************************************)
(* Inputs of a client that drives the scorer directly.                     *)
(***************************************************************************)
\* Longest hand-built CityStats list explored.
MaxRows == 3

\* Longest facility list the driver is run on.
MaxDriverFacilities == 2

\* Longest facility list the direct distance queries are made on.
MaxQueryFacilities == 2

\* factor tuples of OpportunityScorer and of subclasses overriding the class
\* attributes: sums 1.0, 1.00005, 0.99995, 1.0002, 0.9998
FactorConfigs ==
    { ClassFactors,
      [ClassFactors EXCEPT !.geographic_gap = Frac(30005, 100000)],
      [ClassFactors EXCEPT !.population = Frac(19995, 100000)],
      [ClassFactors EXCEPT !.saturation = Frac(3002, 10000)],
      [ClassFactors EXCEPT !.quality_gap = Frac(1998, 10000)] }

\* CityStats(...) with the scoring fields at their defaults
CityStats(city, avg_rating, population, facilities_per_capita, avg_distance_to_nearest) ==
    [ city |-> city,
      total_facilities |-> 10,
      avg_rating |-> avg_rating,
      median_rating |-> avg_rating,
      total_reviews |-> 1000,
      center_lat |-> FracOf(370194),
      center_lng |-> FracOf(-79322),
      population |-> population,
      facilities_per_capita |-> facilities_per_capita,
      avg_distance_to_nearest |-> avg_distance_to_nearest,
      opportunity_score |-> Const(0), population_weight |-> Const(0),
      saturation_weight |-> Const(0), quality_gap_weight |-> Const(0),
      geographic_gap_weight |-> Const(0) ]

\* rows a client may pass: the entries of the scorer's test fixtures, and
\* rows on the distance boundaries (0.0, 20.0, -1.0 km) and within 1e-6 of
\* another row's saturation
ClientRows ==
    { CityStats("Faro",      Some(FracOf(40)), Some(64560), Some(Frac(58, 25)), Some(500)),
      CityStats("Albufeira", Some(FracOf(40)), Some(42388), Some(Frac(59, 25)), Some(0)),
      CityStats("Monchique", Some(FracOf(35)), Some(5958),  Some(Frac(42, 25)), Some(1500)),
      CityStats("CityA",     Some(FracOf(40)), Some(50000), Some(FracOf(2)),    Some(1000)),
      CityStats("CityB",     None,             Some(50000), Some(FracOf(2)),    None),
      CityStats("CityC",     Some(FracOf(40)), None,        None,               Some(-100)),
      CityStats("CityD",     Some(FracOf(40)), Some(50000), Some(Frac(4000001, 2000000)), Some(2000)) }

(***************************************************************************)
(* cache_response, src/utils/cache.py                                      *)
(***************************************************************************)
\* Last day the cache is followed to.
MaxDays == 3

\* Longest run of consecutive calls with identical arguments.
MaxCalls == 3

\* arguments of the wrapped function: the integer 1, the string "1", the
\* integer 2
CacheArgs ==
    { [type |-> "int", text |-> "1"],
      [type |-> "str", text |-> "1"],
      [type |-> "int", text |-> "2"] }

\* ttl_days of the decorator in the running program
TtlDays == { 1, 2 }

\* str(arg)
Str(arg) == arg.text

\* _generate_cache_key: the md5 digest of "func_name|str(arg)", known here by
\* the string it digests
_generate_cache_key(func_name, arg) == << func_name, Str(arg) >>

\* func.__name__ of the wrapped function
FuncName == "get_place_details"

CacheKeys == { _generate_cache_key(FuncName, arg) : arg \in CacheArgs }

\* the wrapped function: what it returns depends on the day it runs
func(arg, now) == [arg |-> arg, fetched_on |-> now]

\* variant: an entry as old as its TTL still counts (age <= max_age)
cache_hit_closed(files, key, now, read_fails) ==
    /\ files[key] # None
    /\ ~read_fails
    /\ now - files[key][1].created_at <= files[key][1].ttl_days

\* the first try block of wrapper: TRUE when it returns cached_data["data"];
\* the file exists, pickle.load succeeds and age < max_age with the ttl_days
\* the entry carries
cache_hit(files, key, now, read_fails) ==
    /\ files[key] # None
    /\ ~read_fails
    /\ now - files[key][1].created_at < files[key][1].ttl_days

\* the second try block of wrapper: the entry replaces the file unless mkdir,
\* open, pickle.dump or replace raises
cache_write(files, key, now, ttl_days, result, write_fails) ==
    IF write_fails THEN files
    ELSE [files EXCEPT ![key] =
            Some([created_at |-> now, ttl_days |-> ttl_days, data |-> result])]

\* wrapper(arg) with settings.cache_dir set: the files it leaves, whether it
\* executed func, and what it returns
wrapper(files, key, now, ttl_days, arg, read_fails, write_fails) ==
    IF cache_hit(files, key, now, read_fails)
    THEN [files |-> files, executed |-> FALSE, result |-> files[key][1].data]
    ELSE [files |-> cache_write(files, key, now, ttl_days, func(arg, now), write_fails),
          executed |-> TRUE,
          result |-> func(arg, now)]

\* the run of consecutive calls with the same arguments a call belongs to
streak_continues(streak, arg, ttl_days) ==
    IF streak = None THEN FALSE
    ELSE streak[1].arg = arg /\ streak[1].ttl_days = ttl_days

streak_after(streak, arg, ttl_days, now, found, executed, failed) ==
    IF streak_continues(streak, arg, ttl_days)
    THEN Some([streak[1] EXCEPT !.calls = @ + 1,
                                !.executions = @ + (IF executed THEN 1 ELSE 0),
                                !.failed = @ \/ failed])
    ELSE Some([arg |-> arg, ttl_days |-> ttl_days, start |-> now, cold |-> ~found,
               calls |-> 1,
               executions |-> IF executed THEN 1 ELSE 0, failed |-> failed])

\* an empty cache directory on day 0, before any call
EmptyCache ==
    [ files |-> [ key \in CacheKeys |-> None ], now |-> 0, last |-> None, streak |-> None ]

(***************************************************************************)
(* State machine: one pipeline run over a facility list.                   *)
(***************************************************************************)
Init ==
    /\ facilities = << >>
    /\ city_stats = << >>
    /\ nearest = None
    /\ radius = None
    /\ scorer = None
    /\ saved = NoFiles
    /\ summary = None
    /\ pc = "load"
    /\ cache = EmptyCache

\* one more validated Facility joins the input list
LoadFacility ==
    /\ pc = "load"
    /\ Len(facilities) < MaxFacilities
    /\ \E c \in FacilityCities, p \in FacilityProfiles :
          facilities' = Append(facilities, Facility(c, p))
    /\ UNCHANGED <<cache, city_stats, nearest, scorer, pc, radius, saved, summary>>

\* city_stats = aggregator.aggregate(facilities)
Aggregate ==
    /\ pc = "load"
    /\ IF aggregate_raises(facilities)
       THEN city_stats' = city_stats /\ pc' = "raised"
       ELSE city_stats' = aggregate(facilities) /\ pc' = "aggregated"
    /\ UNCHANGED <<cache, facilities, nearest, scorer, radius, saved, summary>>

\* city_stats = calculator.calculate_distances(city_stats, facilities)
CalculateDistances ==
    /\ pc = "aggregated"
    /\ IF calculate_distances_raises(city_stats, facilities)
       THEN city_stats' = city_stats /\ pc' = "raised"
       ELSE city_stats' = calculate_distances(city_stats, facilities) /\ pc' = "distances"
    /\ UNCHANGED <<cache, facilities, nearest, scorer, radius, saved, summary>>

\* a direct call of the static DistanceCalculator.calculate_distance_to_nearest
CallDistanceToNearest ==
    /\ pc = "load"
    /\ Len(facilities) <= MaxQueryFacilities
    /\ \E c \in QueryCities :
          nearest' = Some([city |-> c,
                           distance |-> calculate_distance_to_nearest(c, facilities)])
    /\ pc' = "queried"
    /\ UNCHANGED <<cache, facilities, city_stats, scorer, radius, saved, summary>>

\* a direct call of the static DistanceCalculator.calculate_travel_willingness_radius
\* by a client holding no facility data
CallTravelWillingnessRadius ==
    /\ pc = "load"
    /\ facilities = << >>
    /\ \E p \in QueryPopulations :
          radius' = Some([city_population |-> p,
                          radius |-> calculate_travel_willingness_radius(p)])
    /\ pc' = "queried"
    /\ UNCHANGED <<cache, facilities, city_stats, nearest, scorer, saved, summary>>

\* main(), steps 1 and 2: an empty facility list ends the run with exit code 1
MainNoFacilities ==
    /\ pc = "load"
    /\ facilities = << >>
    /\ pc' = "main_exit_1"
    /\ UNCHANGED <<cache, facilities, city_stats, nearest, scorer, radius, saved, summary>>

\* main(), step 2: city_stats = aggregator.aggregate(facilities)
MainAggregate ==
    /\ pc \in {"load", "main_again"}
    /\ facilities # << >>
    /\ Len(facilities) <= MaxDriverFacilities
    /\ IF aggregate_raises(facilities)
       THEN city_stats' = city_stats /\ pc' = "raised"
       ELSE city_stats' = aggregate(facilities) /\ pc' = "main_aggregated"
    /\ UNCHANGED <<cache, facilities, nearest, scorer, radius, saved, summary>>

\* main(), step 3: city_stats = calculate_geographic_metrics(city_stats, facilities)
MainGeographicMetrics ==
    /\ pc = "main_aggregated"
    /\ IF calculate_geographic_metrics_raises(city_stats, facilities)
       THEN city_stats' = city_stats /\ pc' = "raised"
       ELSE /\ city_stats' = calculate_geographic_metrics(city_stats, facilities)
            /\ pc' = "main_metrics"
    /\ UNCHANGED <<cache, facilities, nearest, scorer, radius, saved, summary>>

\* scorer = OpportunityScorer() by a client holding no facility data; a
\* subclass may override the factor attributes
Construct ==
    /\ pc = "load"
    /\ facilities = << >>
    /\ \E factors \in FactorConfigs :
         /\ scorer' = Some([factors |-> factors, raised |-> __init__(factors)])
         /\ pc' = IF __init__(factors) = None THEN "constructed" ELSE "construct_failed"
    /\ UNCHANGED <<cache, facilities, city_stats, nearest, radius, saved, summary>>

\* the client builds one more CityStats
AppendCityStats ==
    /\ pc = "constructed"
    /\ Len(city_stats) < MaxRows
    /\ \E stats \in ClientRows : city_stats' = Append(city_stats, stats)
    /\ UNCHANGED <<cache, facilities, nearest, scorer, pc, radius, saved, summary>>

\* scorer.calculate_scores(city_stats) on the client's list
ScoreCityStats ==
    /\ pc = "constructed"
    /\ IF calculate_scores_raises(city_stats)
       THEN city_stats' = city_stats /\ pc' = "raised"
       ELSE city_stats' = calculate_scores(city_stats) /\ pc' = "client_scored"
    /\ UNCHANGED <<cache, facilities, nearest, scorer, radius, saved, summary>>

\* main(), step 4: scorer = OpportunityScorer(); scorer.calculate_scores(city_stats)
MainCalculateScores ==
    /\ pc = "main_metrics"
    /\ __init__(ClassFactors) = None
    /\ scorer' = Some([factors |-> ClassFactors, raised |-> None])
    /\ IF calculate_scores_raises(city_stats)
       THEN city_stats' = city_stats /\ pc' = "raised"
       ELSE city_stats' = calculate_scores(city_stats) /\ pc' = "main_scored"
    /\ UNCHANGED <<cache, facilities, nearest, radius, saved, summary>>

\* main(), step 5: city_stats.sort(key=..., reverse=True)
MainSort ==
    /\ pc = "main_scored"
    /\ city_stats' = sort(city_stats)
    /\ pc' = "main_sorted"
    /\ UNCHANGED <<cache, facilities, nearest, radius, scorer, saved, summary>>

\* main(), step 6: save_processed_data(facilities, city_stats); an exception
\* ends the run with exit code 1
MainSave ==
    /\ pc = "main_sorted"
    /\ \E outcome \in SaveOutcomes :
         /\ saved' = save_processed_data(saved, facilities, city_stats, outcome)
         /\ pc' = IF outcome = "saved" THEN "main_saved" ELSE "main_exit_1"
    /\ UNCHANGED <<cache, facilities, city_stats, nearest, radius, scorer, summary>>

\* main(), step 7: display_summary(city_stats); return 0
MainDisplaySummary ==
    /\ pc = "main_saved"
    /\ summary' = Some(display_summary(city_stats))
    /\ pc' = "main_exit_0"
    /\ UNCHANGED <<cache, facilities, city_stats, nearest, radius, scorer, saved>>

\* main() is called once more after a run that succeeded, on a raw file that
\* can still grow: its locals are new, the files and the printed summary stay
MainAgain ==
    /\ pc = "main_exit_0"
    /\ Len(facilities) < MaxDriverFacilities
    /\ city_stats' = << >>
    /\ scorer' = None
    /\ pc' = "main_again"
    /\ UNCHANGED <<cache, facilities, nearest, radius, saved, summary>>

\* the raw file holds one more facility when main() loads it again
ReloadFacility ==
    /\ pc = "main_again"
    /\ Len(facilities) < MaxDriverFacilities
    /\ \E f \in ReloadedFacilities : facilities' = Append(facilities, f)
    /\ UNCHANGED <<cache, city_stats, nearest, radius, scorer, saved, summary, pc>>

Next ==
    \/ LoadFacility
    \/ Aggregate
    \/ CalculateDistances
    \/ CallDistanceToNearest
    \/ CallTravelWillingnessRadius
    \/ MainNoFacilities
    \/ MainAggregate
    \/ MainGeographicMetrics
    \/ Construct
    \/ AppendCityStats
    \/ ScoreCityStats
    \/ MainCalculateScores
    \/ MainSort
    \/ MainSave
    \/ MainDisplaySummary
    \/ MainAgain
    \/ ReloadFacility

Spec == Init /\ [][Next]_vars

(***************************************************************************)
(* State machine: calls of a function wrapped by cache_response.           *)
(***************************************************************************)
\* one call of the wrapped function, with the outcome of the file operations
CacheCallWith(key, arg, ttl_days, read_fails, write_fails, out) ==
    cache' = [ files |-> out.files,
               now |-> cache.now,
               last |-> Some([arg |-> arg, ttl_days |-> ttl_days, at |-> cache.now,
                              before |-> cache.files[key],
                              read_failed |-> read_fails /\ cache.files[key] # None,
                              write_failed |-> write_fails /\ out.executed,
                              executed |-> out.executed, result |-> out.result]),
               streak |-> streak_after(cache.streak, arg, ttl_days, cache.now,
                                       cache.files[key] # None, out.executed,
                                       \/ read_fails /\ cache.files[key] # None
                                       \/ write_fails /\ out.executed) ]

\* result = wrapped(arg)
CacheCall ==
    /\ \E arg \in CacheArgs, ttl_days \in TtlDays, read_fails, write_fails \in BOOLEAN :
          /\ IF streak_continues(cache.streak, arg, ttl_days)
             THEN cache.streak[1].calls < MaxCalls
             ELSE TRUE
          /\ CacheCallWith(_generate_cache_key(FuncName, arg), arg, ttl_days,
                           read_fails, write_fails,
                           wrapper(cache.files, _generate_cache_key(FuncName, arg),
                                   cache.now, ttl_days, arg, read_fails, write_fails))
    /\ UNCHANGED <<facilities, city_stats, nearest, radius, scorer, saved, summary, pc>>

\* a day passes between two calls
CacheDayPasses ==
    /\ cache.now < MaxDays
    /\ cache' = [cache EXCEPT !.now = @ + 1, !.last = None]
    /\ UNCHANGED <<facilities, city_stats, nearest, radius, scorer, saved, summary, pc>>

CacheNext ==
    \/ CacheCall
    \/ CacheDayPasses

CacheSpec == Init /\ [][CacheNext]_vars

(***************************************************************************)
(* Vocabulary of the properties: facilities and rows by city, counted and  *)
(* summed over index sets.                                                 *)
(***************************************************************************)
\* city_stats holds the rows aggregate returned for the facility list
Aggregated == pc \in {"aggregated", "distances"}

RowsOf(c) == { i \in 1..Len(city_stats) : city_stats[i].city = c }

FacilitiesIn(c) == { i \in 1..Len(facilities) : facilities[i].city = c }

InputCities == { facilities[i].city : i \in 1..Len(facilities) }

RECURSIVE SumField(_, _)
SumField(S, field) ==
    IF S = {} THEN 0
    ELSE LET i == CHOOSE j \in S : TRUE
         IN  facilities[i][field] + SumField(S \ {i}, field)

ZeroFacilityDefaults ==
    Aggregated =>
        /\ \A c \in DOMAIN CITY_POPULATIONS :
              FacilitiesIn(c) = {} =>
                 \A i \in RowsOf(c) :
                    /\ city_stats[i].total_facilities = 0
                    /\ city_stats[i].avg_rating = None
                    /\ city_stats[i].median_rating = None
                    /\ city_stats[i].total_reviews = 0
                    /\ city_stats[i].facilities_per_capita = Some(FracOf(0))
                    /\ city_stats[i].facilities_per_capita # None
                    /\ city_stats[i].population = Some(CITY_POPULATIONS[c])
                    /\ city_stats[i].center_lat = FracOf(CITY_CENTERS[c].lat)
                    /\ city_stats[i].center_lng = FracOf(CITY_CENTERS[c].lng)
        /\ facilities = << >> =>
              /\ Len(city_stats) = Len(RosterOrder)
              /\ \A i \in 1..Len(city_stats) :
                    /\ city_stats[i].city = RosterOrder[i]
                    /\ city_stats[i].total_facilities = 0

\* a roster city is left without facilities while others have some
ZeroFacilityDefaultsWitness ==
    /\ pc = "aggregated"
    /\ facilities # << >>
    /\ FacilitiesIn("Albufeira") # {}
    /\ \E i \in RowsOf("Faro") : city_stats[i].total_facilities = 0

RatedIn(c) == { i \in FacilitiesIn(c) : facilities[i].rating # None }

RatingAt(i) == facilities[i].rating[1]

RECURSIVE SumRatings(_)
SumRatings(S) ==
    IF S = {} THEN 0
    ELSE LET i == CHOOSE j \in S : TRUE
         IN  RatingAt(i) + SumRatings(S \ {i})

\* the j-th smallest rating among the facilities S, by counting
OrderStat(S, j) ==
    CHOOSE x \in { RatingAt(i) : i \in S } :
        /\ Cardinality({ i \in S : RatingAt(i) < x }) < j
        /\ j <= Cardinality({ i \in S : RatingAt(i) <= x })

\* twice the median of the ratings of S
TwiceMedian(S) ==
    LET k == Cardinality(S)
    IN  IF k % 2 = 1 THEN 2 * OrderStat(S, (k + 1) \div 2)
        ELSE OrderStat(S, k \div 2) + OrderStat(S, k \div 2 + 1)

\* C4: the average and the median of a row range over the rated facilities
\* of its city only; without a rated facility both are None; a rating of 0.0
\* is a rating.
RatingsIgnoreNone ==
    Aggregated =>
        \A r \in 1..Len(city_stats) :
            LET row == city_stats[r]
                rated == RatedIn(row.city)
            IN  IF rated = {}
                THEN row.avg_rating = None /\ row.median_rating = None
                ELSE /\ row.avg_rating # None
                     /\ row.median_rating # None
                     /\ row.avg_rating[1].n * Cardinality(rated)
                           = row.avg_rating[1].d * SumRatings(rated)
                     /\ row.median_rating[1].n * 2
                           = row.median_rating[1].d * TwiceMedian(rated)

\* a group with the ratings [4.5, None] averages 4.5, and a group whose only
\* rating is 0.0 averages 0.0
RatingsIgnoreNoneWitness ==
    /\ pc = "aggregated"
    /\ Cardinality(FacilitiesIn("Faro")) = 2
    /\ Cardinality(RatedIn("Faro")) = 1
    /\ \E i \in RowsOf("Faro") : city_stats[i].avg_rating = Some(FracOf(45))
    /\ Cardinality(RatedIn("Sevilha")) = 1
    /\ \E i \in RowsOf("Sevilha") : city_stats[i].avg_rating = Some(FracOf(0))

\* C5: a row counts the facilities of its city and sums their review
\* counts, so the counts of all rows add up to the length of the list.
CountsAndReviews ==
    Aggregated =>
        /\ \A r \in 1..Len(city_stats) :
              /\ city_stats[r].total_facilities
                    = Cardinality(FacilitiesIn(city_stats[r].city))
              /\ city_stats[r].total_reviews
                    = SumField(FacilitiesIn(city_stats[r].city), "review_count")
        /\ SumSeq([ r \in 1..Len(city_stats) |-> city_stats[r].total_facilities ])
              = Len(facilities)

\* a city with two facilities of 3 and 10 reviews, next to another city
CountsAndReviewsWitness ==
    /\ pc = "aggregated"
    /\ Len(facilities) = 3
    /\ \E i \in RowsOf("Albufeira") :
          city_stats[i].total_facilities = 2 /\ city_stats[i].total_reviews = 13

\* C6: the per-capita rate is None exactly for the rows without population,
\* which are the cities outside CITY_POPULATIONS; otherwise it is
\* total_facilities / population * 10000, so 0.0 for a city without
\* facilities.
PerCapitaFormula ==
    Aggregated =>
        \A r \in 1..Len(city_stats) :
            LET row == city_stats[r]
            IN  /\ row.facilities_per_capita = None <=> row.population = None
                /\ row.population = None <=> row.city \notin DOMAIN CITY_POPULATIONS
                /\ row.population # None =>
                      LET rate == row.facilities_per_capita[1]
                          pop  == row.population[1]
                      IN  /\ pop = CITY_POPULATIONS[row.city]
                          /\ pop % rate.d = 0
                          /\ rate.n * (pop \div rate.d) = row.total_facilities * 10000
                          /\ row.total_facilities = 0 => rate = FracOf(0)

\* Faro with two facilities: (2 / 64560) * 10000 = 250 / 807
PerCapitaFormulaWitness ==
    /\ pc = "aggregated"
    /\ \E i \in RowsOf("Faro") :
          /\ city_stats[i].total_facilities = 2
          /\ city_stats[i].facilities_per_capita = Some([n |-> 250, d |-> 807])
    /\ \E i \in RowsOf("Sevilha") : city_stats[i].facilities_per_capita = None

\* C7: the centre of a row with facilities is the arithmetic mean of their
\* coordinates; with one facility it is that facility's point.
CenterIsMean ==
    Aggregated =>
        \A r \in 1..Len(city_stats) :
            LET row == city_stats[r]
                own == FacilitiesIn(row.city)
            IN  own # {} =>
                  /\ row.center_lat.n * Cardinality(own)
                        = row.center_lat.d * SumField(own, "latitude")
                  /\ row.center_lng.n * Cardinality(own)
                        = row.center_lng.d * SumField(own, "longitude")
                  /\ \A i \in own :
                        Cardinality(own) = 1 =>
                           /\ row.center_lat = FracOf(facilities[i].latitude)
                           /\ row.center_lng = FracOf(facilities[i].longitude)

\* two facilities of one city at different points: the centre lies halfway
CenterIsMeanWitness ==
    /\ pc = "aggregated"
    /\ Cardinality(FacilitiesIn("Faro")) = 2
    /\ \E i \in RowsOf("Faro") :
          /\ city_stats[i].center_lat = [n |-> 743317, d |-> 2]
          /\ city_stats[i].center_lng = [n |-> -82428, d |-> 1]

(***************************************************************************)
(* Distance Calculator                                                     *)
(***************************************************************************)
Distanced == pc = "distances"

OutsideOf(c) == { i \in 1..Len(facilities) : facilities[i].city # c }

\* mean coordinate of the facilities of city c
Centroid(c) ==
    [lat |-> Frac(SumField(FacilitiesIn(c), "latitude"), Cardinality(FacilitiesIn(c))),
     lng |-> Frac(SumField(FacilitiesIn(c), "longitude"), Cardinality(FacilitiesIn(c)))]

\* rounded distance from a point to facility i
RoundedTo(point, i) == Round2(Geodesic(point, PointOf(facilities[i])))

\* d is the least rounded distance from the point to the facilities S
LeastOver(d, point, S) ==
    /\ \E i \in S : RoundedTo(point, i) = d
    /\ \A i \in S : d <= RoundedTo(point, i)

\* the distance of a city with facilities: least over the facilities of
\* other cities from the centroid of its own, 0.0 when there are none
NearestElsewhere(d, c) ==
    IF OutsideOf(c) = {} THEN d = 0
    ELSE LeastOver(d, Centroid(c), OutsideOf(c))

\* C8: for a city with facilities, the static method and the row written by
\* calculate_distances give the least distance, rounded to 2 decimals, from
\* the centroid of its own facilities to the facilities of other cities, and
\* 0.0 when no other city has one; its own facilities are never candidates.
NearestInOtherCities ==
    /\ Distanced =>
          \A r \in 1..Len(city_stats) :
              FacilitiesIn(city_stats[r].city) # {} =>
                 /\ city_stats[r].avg_distance_to_nearest # None
                 /\ NearestElsewhere(city_stats[r].avg_distance_to_nearest[1],
                                     city_stats[r].city)
    /\ (pc = "queried" /\ FacilitiesIn(nearest[1].city) # {}) =>
          NearestElsewhere(nearest[1].distance, nearest[1].city)

\* Faro's own facility is nearer to its centroid than any facility elsewhere,
\* and the row holds the distance to the one elsewhere
NearestInOtherCitiesWitness ==
    /\ Distanced
    /\ FacilitiesIn("Faro") # {}
    /\ OutsideOf("Faro") # {}
    /\ \E r \in RowsOf("Faro") :
          /\ city_stats[r].avg_distance_to_nearest[1] > 0
          /\ \E i \in FacilitiesIn("Faro") :
                RoundedTo(Centroid("Faro"), i) < city_stats[r].avg_distance_to_nearest[1]

\* C9: a row whose city has no facility gets the least distance, rounded to
\* 2 decimals, from the row's centre to any facility, no city left out;
\* with an empty facility list every row gets 0.0.
ZeroFacilityRowUsesCenter ==
    Distanced =>
        /\ \A r \in 1..Len(city_stats) :
              (FacilitiesIn(city_stats[r].city) = {} /\ facilities # << >>) =>
                 /\ city_stats[r].avg_distance_to_nearest # None
                 /\ LeastOver(city_stats[r].avg_distance_to_nearest[1],
                              row_center(city_stats[r]),
                              1..Len(facilities))
        /\ facilities = << >> =>
              \A r \in 1..Len(city_stats) :
                  city_stats[r].avg_distance_to_nearest = Some(0)

\* Monchique has no facility; its row holds the distance from its reference
\* centre to the nearer of the facilities of two other cities
ZeroFacilityRowUsesCenterWitness ==
    /\ Distanced
    /\ Cardinality(InputCities) >= 2
    /\ \E r \in RowsOf("Monchique") :
          /\ city_stats[r].total_facilities = 0
          /\ city_stats[r].center_lat = FracOf(CITY_CENTERS["Monchique"].lat)
          /\ city_stats[r].avg_distance_to_nearest[1] > 0
          /\ \E i \in 1..Len(facilities) :
                RoundedTo(row_center(city_stats[r]), i)
                   > city_stats[r].avg_distance_to_nearest[1]

\* C10 as stated: a row with 0 facilities has a distance above 0 as soon as
\* some other city has a facility.
ZeroFacilityDistancePositive ==
    Distanced =>
        \A r \in 1..Len(city_stats) :
            (/\ city_stats[r].total_facilities = 0
             /\ OutsideOf(city_stats[r].city) # {})
               => city_stats[r].avg_distance_to_nearest[1] > 0

\* C10, amended: a row with 0 facilities has a distance of at least 0.0; it
\* is above 0 whenever the list is non-empty and every facility lies more
\* than 5 m (0.005 km) from the row's centre, and it is 0.0 when a facility
\* stands on the centre itself.
ZeroFacilityDistancePositiveUnlessAtCenter ==
    Distanced =>
        \A r \in 1..Len(city_stats) :
            city_stats[r].total_facilities = 0 =>
               LET d == city_stats[r].avg_distance_to_nearest[1]
                   center == row_center(city_stats[r])
               IN  /\ d >= 0
                   /\ (/\ facilities # << >>
                       /\ \A i \in 1..Len(facilities) :
                             4 * Geodesic(center, PointOf(facilities[i])) > 5)
                         => d > 0
                   /\ (\E i \in 1..Len(facilities) :
                          PointOf(facilities[i]) = center)
                         => d = 0

\* a facility of Faro stands on the reference centre of Monchique: the row of
\* Monchique holds 0.0 while the row of Albufeira holds a distance above 0
ZeroFacilityDistancePositiveUnlessAtCenterWitness ==
    /\ Distanced
    /\ FacilitiesIn("Faro") # {}
    /\ \E r \in RowsOf("Monchique") :
          /\ city_stats[r].total_facilities = 0
          /\ city_stats[r].avg_distance_to_nearest = Some(0)
    /\ \E r \in RowsOf("Albufeira") :
          /\ city_stats[r].total_facilities = 0
          /\ city_stats[r].avg_distance_to_nearest[1] > 0

(***************************************************************************)
(* Pipeline driver                                                         *)
(***************************************************************************)
\* C11: after the geographic step of main(), every row, with or without
\* facilities, holds the distance the Distance Calculator defines for it: the
\* value calculate_distances sets for that row on the same inputs.
DriverDistancesMatchCalculator ==
    pc = "main_metrics" =>
        \A r \in 1..Len(city_stats) :
            city_stats[r].avg_distance_to_nearest
               = calculate_distances(aggregate(facilities), facilities)[r].avg_distance_to_nearest

(***************************************************************************)
(* Scorer                                                                  *)
(***************************************************************************)
Scored == pc \in {"client_scored", "main_scored"}

\* a factor in units of 1e-5
HundredThousandths(f) == f.n * (100000 \div f.d)

FactorSum(factors) ==
    HundredThousandths(factors.population) + HundredThousandths(factors.saturation)
      + HundredThousandths(factors.quality_gap) + HundredThousandths(factors.geographic_gap)

\* C12: constructing the scorer raises exactly when the four factors sum to a
\* value more than 1e-4 away from 1.0; a failed construction has processed no
\* city data and ends the run, the factors are left as given, and the class
\* factors 0.20, 0.30, 0.20, 0.30 construct.
ConstructorChecksFactorSum ==
    scorer # None =>
        /\ (scorer[1].raised # None) <=> (Abs(FactorSum(scorer[1].factors) - 100000) > 10)
        /\ scorer[1].raised # None =>
              /\ scorer[1].raised = Some("ValueError")
              /\ pc = "construct_failed"
              /\ city_stats = << >>
        /\ scorer[1].factors \in FactorConfigs
        /\ scorer[1].factors = ClassFactors => scorer[1].raised = None

ConstructorChecksFactorSumWitness ==
    /\ scorer # None
    /\ scorer[1].raised = Some("ValueError")
    /\ FactorSum(scorer[1].factors) = 100020

\* the four weights of a row
WeightsOf(stats) ==
    { stats.population_weight, stats.saturation_weight,
      stats.quality_gap_weight, stats.geographic_gap_weight }

Floor(f) == f.n \div f.d

Ceiling(f) == -((-f.n) \div f.d)

\* an integer no greater than x: each negative term n / (d + u * 1e-6) is
\* above n / d, each positive one above 0
LowerBound(x) ==
    Floor(x.c) + SumSeq([ i \in 1..Len(x.terms) |->
                            IF x.terms[i].n < 0
                            THEN Floor([n |-> x.terms[i].n, d |-> x.terms[i].d]) ELSE 0 ])

\* an integer no less than x
UpperBound(x) ==
    Ceiling(x.c) + SumSeq([ i \in 1..Len(x.terms) |->
                              IF x.terms[i].n > 0
                              THEN Ceiling([n |-> x.terms[i].n, d |-> x.terms[i].d]) ELSE 0 ])

\* C13: after calculate_scores every row has its four weights in [0,1] and
\* its opportunity_score in [0,100], whatever mix of None values the list holds.
WeightsAndScoreInRange ==
    Scored =>
        \A i \in 1..Len(city_stats) :
            /\ \A w \in WeightsOf(city_stats[i]) : LowerBound(w) >= 0 /\ UpperBound(w) <= 1
            /\ LowerBound(city_stats[i].opportunity_score) >= 0
            /\ UpperBound(city_stats[i].opportunity_score) <= 100

WeightsAndScoreInRangeWitness ==
    /\ pc = "client_scored"
    /\ \E i, j, k \in 1..Len(city_stats) :
          /\ city_stats[i].population = None
          /\ city_stats[i].avg_distance_to_nearest # None
          /\ city_stats[j].avg_rating = None
          /\ city_stats[j].avg_distance_to_nearest = None
          /\ city_stats[j].saturation_weight.terms # << >>
          /\ city_stats[k].population_weight.terms # << >>

MinMaxFactors == {"population", "saturation", "quality_gap"}

\* the value of row i that a min-max factor normalises, in its own unit
ValueAt(i, factor) ==
    CASE factor = "population" ->
           IF city_stats[i].population = None THEN None
           ELSE Some(FracOf(city_stats[i].population[1]))
      [] factor = "saturation" -> city_stats[i].facilities_per_capita
      [] factor = "quality_gap" ->
           IF city_stats[i].avg_rating = None THEN None
           ELSE Some(Frac(city_stats[i].avg_rating[1].n, city_stats[i].avg_rating[1].d * 10))

WeightAt(i, factor) ==
    CASE factor = "population" -> city_stats[i].population_weight
      [] factor = "saturation" -> city_stats[i].saturation_weight
      [] factor = "quality_gap" -> city_stats[i].quality_gap_weight

\* the rows whose value for the factor is not None
Present(factor) == { i \in 1..Len(city_stats) : ValueAt(i, factor) # None }

\* a <= b on fractions
Leq(a, b) ==
    a.n * (LCM(a.d, b.d) \div a.d) <= b.n * (LCM(a.d, b.d) \div b.d)

\* |a - b| < 1e-6 on fractions
Within1e6(a, b) ==
    \/ a = b
    \/ /\ Abs(a.n * (LCM(a.d, b.d) \div a.d) - b.n * (LCM(a.d, b.d) \div b.d))
            <= LCM(a.d, b.d) \div 1000000
       /\ Abs(a.n * (LCM(a.d, b.d) \div a.d) - b.n * (LCM(a.d, b.d) \div b.d)) * 1000000
            < LCM(a.d, b.d)

\* the distinct values the factor takes over the rows holding one
PresentValues(factor) == { ValueAt(i, factor)[1] : i \in Present(factor) }

Least(values) == CHOOSE a \in values : \A b \in values : Leq(a, b)

Greatest(values) == CHOOSE a \in values : \A b \in values : Leq(b, a)

\* fewer than two values, or max - min < 1e-6
Degenerate(present, values) ==
    \/ Cardinality(present) < 2
    \/ Within1e6(Least(values), Greatest(values))

\* the weight sits at the end of the scale the minimum maps to
AtMinimumEnd(w, factor) == w = IF factor = "population" THEN Const(0) ELSE Const(1)

\* the weight is the whole span over (span + 1e-6), or 1 minus that
AtMaximumEnd(w, factor) ==
    /\ Len(w.terms) = 1
    /\ w.c = IF factor = "population" THEN FracOf(0) ELSE FracOf(1)
    /\ w.terms[1].n = IF factor = "population" THEN w.terms[1].d ELSE -w.terms[1].d

NeutralCasesOf(factor, present, degenerate) ==
    /\ \A i \in 1..Len(city_stats) :
           (i \notin present \/ degenerate) => WeightAt(i, factor) = ConstFrac(1, 2)
    /\ ~degenerate =>
           /\ \E i \in present : AtMinimumEnd(WeightAt(i, factor), factor)
           /\ \E i \in present : AtMaximumEnd(WeightAt(i, factor), factor)

\* C15: for each min-max factor, a row whose own value is None gets 0.5; with
\* fewer than two values that are not None every row gets 0.5; with those
\* values less than 1e-6 apart every row gets 0.5; otherwise the minimum and
\* the maximum are taken over the values that are not None, so that rows
\* holding a value attain both ends of the scale whatever rows hold None.
NeutralCases ==
    Scored =>
        \A factor \in MinMaxFactors :
            NeutralCasesOf(factor, Present(factor),
                           Degenerate(Present(factor), PresentValues(factor)))

NeutralCasesWitness ==
    /\ pc = "client_scored"
    /\ Len(city_stats) = 3
    /\ city_stats[1].city = "CityA" /\ city_stats[2].city = "CityD"
    /\ city_stats[3].city = "CityC"
    /\ city_stats[1].facilities_per_capita # city_stats[2].facilities_per_capita
    /\ city_stats[1].saturation_weight = ConstFrac(1, 2)
    /\ city_stats[3].population = None
    /\ Cardinality(Present("population")) = 2

\* (v - min) / (max - min + 1e-6)
Normalized(v, min, max) ==
    Quotient(v.n * (LCM(LCM(v.d, min.d), max.d) \div v.d)
               - min.n * (LCM(LCM(v.d, min.d), max.d) \div min.d),
             max.n * (LCM(LCM(v.d, min.d), max.d) \div max.d)
               - min.n * (LCM(LCM(v.d, min.d), max.d) \div min.d),
             LCM(LCM(v.d, min.d), max.d))

\* 1 - q for a quotient q
Inverted(q) ==
    [c |-> FracOf(1), terms |-> [ k \in 1..Len(q.terms) |-> [q.terms[k] EXCEPT !.n = -@] ]]

\* the share of the span a weight stands for
Share(w) ==
    IF w.terms = << >> THEN FracOf(0)
    ELSE [n |-> Abs(w.terms[1].n), d |-> w.terms[1].d]

MinMaxNormalizationOf(factor, present, min, max) ==
    \A i \in present :
        /\ WeightAt(i, factor) =
              IF factor = "population" THEN Normalized(ValueAt(i, factor)[1], min, max)
              ELSE Inverted(Normalized(ValueAt(i, factor)[1], min, max))
        /\ \A j \in present :
              Leq(ValueAt(i, factor)[1], ValueAt(j, factor)[1]) =>
                  Leq(Share(WeightAt(i, factor)), Share(WeightAt(j, factor)))
        /\ ValueAt(i, factor)[1] = min => AtMinimumEnd(WeightAt(i, factor), factor)

\* C16: outside the neutral cases population_weight is
\* (v - min) / (max - min + 1e-6) over the populations that are not None and
\* never decreases with the population; saturation_weight and
\* quality_gap_weight are 1 minus the same quotient of their values and never
\* increase with them; the row holding the minimum gets exactly 0, or exactly 1
\* when inverted.
MinMaxNormalization ==
    Scored =>
        \A factor \in MinMaxFactors :
            ~Degenerate(Present(factor), PresentValues(factor)) =>
                MinMaxNormalizationOf(factor, Present(factor),
                                      Least(PresentValues(factor)),
                                      Greatest(PresentValues(factor)))

MinMaxNormalizationWitness ==
    /\ pc = "client_scored"
    /\ Len(city_stats) = 3
    /\ city_stats[1].city = "Faro" /\ city_stats[2].city = "Albufeira"
    /\ city_stats[3].city = "Monchique"
    /\ city_stats[3].population_weight = Const(0)
    /\ city_stats[3].saturation_weight = Const(1)
    /\ city_stats[3].quality_gap_weight = Const(1)
    /\ city_stats[2].population_weight.terms = << Term(42388 - 5958, 64560 - 5958, 1) >>
    /\ city_stats[2].saturation_weight.c = FracOf(1)

\* C17: after calculate_scores every row's opportunity_score is
\* (population_weight * 0.20 + saturation_weight * 0.30 + quality_gap_weight
\* * 0.20 + geographic_gap_weight * 0.30) * 100 of the weights stored on that
\* row, the factors being the scorer's class constants.
ScoreIsWeightedSum ==
    Scored =>
        \A i \in 1..Len(city_stats) :
            city_stats[i].opportunity_score =
                NumScale(
                  NumAdd(NumAdd(NumAdd(
                    NumScale(city_stats[i].population_weight, POPULATION_WEIGHT_FACTOR),
                    NumScale(city_stats[i].saturation_weight, SATURATION_WEIGHT_FACTOR)),
                    NumScale(city_stats[i].quality_gap_weight, QUALITY_GAP_WEIGHT_FACTOR)),
                    NumScale(city_stats[i].geographic_gap_weight, GEOGRAPHIC_GAP_WEIGHT_FACTOR)),
                  FracOf(100))

ScoreIsWeightedSumWitness ==
    /\ pc = "client_scored"
    /\ \E i \in 1..Len(city_stats) :
          /\ Len(city_stats[i].opportunity_score.terms) = 3
          /\ city_stats[i].geographic_gap_weight = ConstFrac(1, 4)
          /\ city_stats[i].population_weight.terms # << >>
          /\ city_stats[i].saturation_weight.terms # << >>
          /\ city_stats[i].quality_gap_weight.terms # << >>

ScaledTo20Km(d) == ConstFrac(IF d < 2000 THEN d ELSE 2000, 2000)

\* C19: geographic_gap_weight is the distance over 20 km capped at 1.0: one
\* row at 5.0 km gets 0.25 and a score of 42.5, two rows of equal metrics at
\* 10.0 km get 0.5 and a score of 50.0.
GeographicGapScaled ==
    pc = "client_scored" =>
        /\ \A i \in 1..Len(city_stats) :
              (city_stats[i].avg_distance_to_nearest # None
                 /\ city_stats[i].avg_distance_to_nearest[1] >= 0) =>
                  city_stats[i].geographic_gap_weight =
                      ScaledTo20Km(city_stats[i].avg_distance_to_nearest[1])
        /\ (Len(city_stats) = 1 /\ city_stats[1].avg_distance_to_nearest = Some(500)) =>
              /\ city_stats[1].geographic_gap_weight = ConstFrac(1, 4)
              /\ city_stats[1].opportunity_score = ConstFrac(85, 2)
        /\ (Len(city_stats) = 2 /\ city_stats[1].city = "CityA" /\ city_stats[2].city = "CityA") =>
              \A i \in 1..2 :
                  /\ city_stats[i].geographic_gap_weight = ConstFrac(1, 2)
                  /\ city_stats[i].opportunity_score = Const(50)

(***************************************************************************)
(* Failures                                                                *)
(***************************************************************************)
\* C20: aggregate, calculate_distances and calculate_scores never leave
\* through an exception (empty list, no rating, unknown population, missing
\* distance, zero facilities, single city, zero variance included);
\* calculate_scores of the empty list is the empty list; the only failure is
\* the ValueError of the scorer's constructor.
NoStageRaises ==
    /\ pc # "raised"
    /\ pc = "construct_failed" => (scorer # None /\ scorer[1].raised = Some("ValueError"))
    /\ (pc = "constructed" /\ city_stats = << >>) =>
          (~calculate_scores_raises(city_stats) /\ calculate_scores(city_stats) = << >>)

NoStageRaisesWitness ==
    /\ pc = "client_scored"
    /\ Len(city_stats) = 3
    /\ city_stats[1].city = "CityB" /\ city_stats[1].avg_rating = None
    /\ city_stats[1].avg_distance_to_nearest = None
    /\ city_stats[2].city = "CityC" /\ city_stats[2].population = None
    /\ city_stats[3].city = "CityA"

(***************************************************************************)
(* Driver: sort, save, summary                                             *)
(***************************************************************************)
\* the driver has sorted city_stats and not yet left
Sorted == pc \in {"main_sorted", "main_saved", "main_exit_0"}

\* what steps 2 to 4 of main() make of a facility list
ScoredRowsOf(fs) == calculate_scores(calculate_geographic_metrics(aggregate(fs), fs))

\* a >= b on two scores
ScoreAtLeast(a, b) == a = b \/ KeyBelow(FloatKey(b), FloatKey(a))

NonIncreasing(rows) ==
    \A i \in 1..(Len(rows) - 1) :
        ScoreAtLeast(rows[i].opportunity_score, rows[i + 1].opportunity_score)

\* s and t hold the same rows the same number of times
SameRows(s, t) ==
    /\ Len(s) = Len(t)
    /\ \A i \in 1..Len(s) :
          Cardinality({ j \in 1..Len(s) : s[j] = s[i] })
            = Cardinality({ j \in 1..Len(t) : t[j] = s[i] })

\* C21: when main() has sorted, city_stats holds exactly the rows that
\* aggregate, then the geographic step, then calculate_scores made of the
\* facility list, each as often as there; from the sort on the rows are in
\* non-increasing order of opportunity_score; once main() has saved, the saved
\* city rows are the rows of city_stats in their order and the saved
\* facilities are the loaded ones; when main() returns 0 the summary shows the
\* first five rows.
DriverSortsThenSaves ==
    /\ Sorted => NonIncreasing(city_stats)
    /\ pc = "main_sorted" => SameRows(city_stats, ScoredRowsOf(facilities))
    /\ pc \in {"main_saved", "main_exit_0"} =>
          saved = [facilities |-> Some(facilities), city_stats |-> Some(city_stats)]
    /\ pc = "main_exit_0" =>
          /\ summary # None
          /\ Len(summary[1]) = 5
          /\ \A i \in 1..5 : summary[1][i] = city_stats[i]

DriverSortsThenSavesWitness ==
    /\ pc = "main_exit_0"
    /\ city_stats # ScoredRowsOf(facilities)
    /\ \E i \in 1..(Len(city_stats) - 1) :
          /\ city_stats[i].opportunity_score = city_stats[i + 1].opportunity_score
          /\ city_stats[i].city = "Ayamonte" /\ city_stats[i + 1].city = "Sevilha"
    /\ summary # None
    /\ summary[1][1].city = "Loule"
    /\ summary[1][1].opportunity_score # summary[1][2].opportunity_score

(***************************************************************************)
(* Travel radius                                                           *)
(***************************************************************************)
\* C22: calculate_travel_willingness_radius(p) is 5.0 km for p > 50000,
\* 10.0 km for 20000 <= p <= 50000 and 15.0 km for p < 20000, for every
\* integer p, zero and negative ones included; no scoring run calls it, and
\* rows at the same distance get the same geographic weight whatever radius
\* their populations have.
TravelRadiusTable ==
    /\ radius # None =>
          /\ radius[1].city_population > 50000 => radius[1].radius = 500
          /\ (20000 <= radius[1].city_population /\ radius[1].city_population <= 50000)
                => radius[1].radius = 1000
          /\ radius[1].city_population < 20000 => radius[1].radius = 1500
          /\ radius[1].radius \in {500, 1000, 1500}
    /\ pc # "queried" => radius = None
    /\ Scored =>
          \A i, j \in 1..Len(city_stats) :
              city_stats[i].avg_distance_to_nearest = city_stats[j].avg_distance_to_nearest
                 => city_stats[i].geographic_gap_weight = city_stats[j].geographic_gap_weight

TravelRadiusTableWitness ==
    /\ radius # None
    /\ radius[1].city_population = 50000
    /\ radius[1].radius = 1000

(***************************************************************************)
(* Pipeline integration                                                    *)
(***************************************************************************)
\* C23: aggregating facilities that lie in exactly the two cities Albufeira
\* and Faro yields exactly 2 rows, one per city that has facilities, and after
\* the geographic step each of these rows has an avg_distance_to_nearest that
\* is not None.
TwoCitiesGiveTwoRows ==
    (pc \in {"main_aggregated", "main_metrics"} /\ InputCities = {"Albufeira", "Faro"}) =>
        /\ Len(city_stats) = 2
        /\ \A c \in InputCities : Cardinality(RowsOf(c)) = 1
        /\ \A r \in 1..Len(city_stats) : city_stats[r].total_facilities > 0
        /\ pc = "main_metrics" =>
              \A r \in 1..Len(city_stats) : city_stats[r].avg_distance_to_nearest # None

(***************************************************************************)
(* Frame conditions                                                        *)
(***************************************************************************)
\* the fields calculate_scores writes
ScoringFields ==
    { "population_weight", "saturation_weight", "quality_gap_weight",
      "geographic_gap_weight", "opportunity_score" }

\* rows and rows_after agree, place by place, on every field outside fields
SameOutside(rows, rows_after, fields) ==
    /\ Len(rows_after) = Len(rows)
    /\ \A i \in 1..Len(rows) :
          /\ DOMAIN rows_after[i] = DOMAIN rows[i]
          /\ \A f \in DOMAIN rows[i] \ fields : rows_after[i][f] = rows[i][f]

\* C24: a step of calculate_scores leaves the caller's list with the same
\* rows in the same order, and on each row changes nothing but the four
\* weights and opportunity_score: city, total_facilities, avg_rating,
\* median_rating, total_reviews, the centre, population,
\* facilities_per_capita and avg_distance_to_nearest stay as they were.
ScoresTouchOnlyScoringFields ==
    [][ (pc # pc' /\ pc' \in {"client_scored", "main_scored"}) =>
            SameOutside(city_stats, city_stats', ScoringFields) ]_vars

ScoresTouchOnlyScoringFieldsWitness ==
    /\ pc = "client_scored"
    /\ Len(city_stats) = 3
    /\ city_stats[1].city = "Monchique" /\ city_stats[2].city = "CityB"
    /\ city_stats[3].city = "Faro"
    /\ city_stats[1].opportunity_score # Const(0)
    /\ city_stats[1].population_weight # city_stats[3].population_weight
    /\ city_stats[2].avg_distance_to_nearest = None

\* C25: a step of calculate_distances leaves the caller's list with the same
\* rows in the same order, gives every row, with or without facilities, an
\* avg_distance_to_nearest that is a number, changes no other field of any
\* row, and leaves the facility list as it was.
DistancesTouchOnlyDistance ==
    [][ (pc = "aggregated" /\ pc' = "distances") =>
            /\ SameOutside(city_stats, city_stats', {"avg_distance_to_nearest"})
            /\ \A i \in 1..Len(city_stats') :
                  /\ city_stats'[i].avg_distance_to_nearest # None
                  /\ city_stats'[i].avg_distance_to_nearest[1] >= 0
            /\ facilities' = facilities ]_vars

DistancesTouchOnlyDistanceWitness ==
    /\ pc = "distances"
    /\ Len(facilities) = 3
    /\ Len(city_stats) = 16
    /\ city_stats[1].total_facilities = 2
    /\ city_stats[1].avg_distance_to_nearest[1] > 0
    /\ city_stats[2].total_facilities = 0
    /\ city_stats[2].avg_distance_to_nearest[1] > 0
    /\ city_stats[16].avg_distance_to_nearest # None

\* no row of rows holds a weight or a score other than the 0.0 of construction
Unscored(rows) ==
    \A i \in 1..Len(rows) : \A f \in ScoringFields : rows[i][f] = Const(0)

\* C26: in every run of main(), the first one or a later one, the rows that
\* leave the aggregation are the rows of that run's facility list alone, with
\* no distance and 0.0 in the four weights and the score; after the geographic
\* step every row has a distance and still 0.0 in the weights and the score;
\* after the scoring step every row has a distance, and its geographic weight
\* is the bucket of that distance. Nothing saved by an earlier run is read.
StagesFillFieldsInOrder ==
    /\ pc = "main_aggregated" =>
          /\ city_stats = aggregate(facilities)
          /\ Unscored(city_stats)
          /\ \A i \in 1..Len(city_stats) : city_stats[i].avg_distance_to_nearest = None
    /\ pc = "main_metrics" =>
          /\ Unscored(city_stats)
          /\ \A i \in 1..Len(city_stats) :
                city_stats[i].avg_distance_to_nearest =
                    Some(calculate_distance_to_nearest(city_stats[i].city, facilities))
    /\ pc = "main_scored" =>
          \A i \in 1..Len(city_stats) :
              /\ city_stats[i].avg_distance_to_nearest =
                    Some(calculate_distance_to_nearest(city_stats[i].city, facilities))
              /\ city_stats[i].geographic_gap_weight =
                    _normalize_geographic_gap(city_stats[i].avg_distance_to_nearest)

\* a second run on a file that has grown: the rows saved by the first run are
\* on disk, and a city's distance and geographic weight differ from the saved
\* ones
StagesFillFieldsInOrderWitness ==
    /\ pc = "main_scored"
    /\ saved.city_stats # None
    /\ saved.facilities # Some(facilities)
    /\ \E i \in 1..Len(city_stats) : \E j \in 1..Len(saved.city_stats[1]) :
          /\ saved.city_stats[1][j].city = city_stats[i].city
          /\ saved.city_stats[1][j].avg_distance_to_nearest
                # city_stats[i].avg_distance_to_nearest
          /\ saved.city_stats[1][j].geographic_gap_weight
                # city_stats[i].geographic_gap_weight

\* some city of the roster has a facility in fs
RosterHasFacility(fs) ==
    \E k \in 1..Len(fs) : fs[k].city \in DOMAIN CITY_POPULATIONS

\* C28: when the rows of aggregate(F) are scored and some roster city has a
\* facility in F, every roster city without a facility gets saturation_weight
\* 1.0 and quality_gap_weight 0.5; when no roster city has a facility in F,
\* every roster city gets saturation_weight 0.5.
ZeroFacilityRosterWeights ==
    pc = "main_scored" =>
        \A i \in 1..Len(city_stats) :
            city_stats[i].city \in DOMAIN CITY_POPULATIONS =>
                IF RosterHasFacility(facilities)
                THEN city_stats[i].total_facilities = 0 =>
                        /\ city_stats[i].saturation_weight = Const(1)
                        /\ city_stats[i].quality_gap_weight = ConstFrac(1, 2)
                ELSE city_stats[i].saturation_weight = ConstFrac(1, 2)

\* a roster city and a city outside the roster have a facility each, the
\* roster city's facility is rated: roster rows without facilities stand next
\* to a roster row whose saturation weight is below 1.0
ZeroFacilityRosterWeightsWitness ==
    /\ pc = "main_scored"
    /\ RosterHasFacility(facilities)
    /\ \E k \in 1..Len(facilities) : facilities[k].city \notin DOMAIN CITY_POPULATIONS
    /\ \E i, j \in 1..Len(city_stats) :
          /\ city_stats[i].city \in DOMAIN CITY_POPULATIONS
          /\ city_stats[i].total_facilities = 0
          /\ city_stats[i].saturation_weight = Const(1)
          /\ city_stats[j].city \in DOMAIN CITY_POPULATIONS
          /\ city_stats[j].total_facilities > 0
          /\ city_stats[j].avg_rating # None
          /\ city_stats[j].saturation_weight # Const(1)
          /\ city_stats[j].quality_gap_weight # ConstFrac(1, 2)

Exchanged(rows, a, b) ==
    [ i \in 1..Len(rows) |->
        IF i = a THEN rows[b] ELSE IF i = b THEN rows[a] ELSE rows[i] ]

\* C30: once a list is scored, scoring it again gives every row the weights
\* and the score it already has, whether the list is passed as it is or with
\* two neighbouring rows exchanged: the result of a city depends on its own
\* values and on the values present in the list, not on the places of the
\* rows nor on the weights and scores the rows carry. Every order of a list
\* is reached by such exchanges, and every list of the explored rows is scored.
ScoresIgnoreOrderAndStoredWeights ==
    pc = "client_scored" =>
        /\ calculate_scores(city_stats) = city_stats
        /\ \A a \in 1..(Len(city_stats) - 1) :
              calculate_scores(Exchanged(city_stats, a, a + 1))
                  = Exchanged(city_stats, a, a + 1)

\* three rows of three cities whose populations, saturations and ratings
\* differ, so that the three of them get different weights and scores
ScoresIgnoreOrderAndStoredWeightsWitness ==
    /\ pc = "client_scored"
    /\ Len(city_stats) = 3
    /\ \A a, b \in 1..3 :
          a < b =>
            /\ city_stats[a].population_weight # city_stats[b].population_weight
            /\ city_stats[a].saturation_weight # city_stats[b].saturation_weight
            /\ city_stats[a].opportunity_score # city_stats[b].opportunity_score
    /\ \E a, b \in 1..3 :
          city_stats[a].quality_gap_weight # city_stats[b].quality_gap_weight

\* the entry a call found is younger than the TTL it carries and could be read
FoundFresh(c) ==
    IF c.before = None THEN FALSE
    ELSE ~c.read_failed /\ c.at - c.before[1].created_at < c.before[1].ttl_days

\* the entry an executing call writes
FreshEntry(c) ==
    Some([created_at |-> c.at, ttl_days |-> c.ttl_days, data |-> c.result])

\* every call of the current run of identical calls was made within the TTL
\* of the run's first call
StreakWithinTtl ==
    IF cache.streak = None THEN FALSE
    ELSE cache.now - cache.streak[1].start < cache.streak[1].ttl_days

\* C27: a call that finds a readable entry younger than its TTL returns the
\* stored value without executing the function and leaves the entry alone;
\* every other call (no entry, an entry at least TTL old, an unreadable
\* entry) executes the function and returns its result, and stores a fresh
\* entry unless the write fails, in which case the file stays as it was. A
\* run of consecutive calls with identical arguments within the TTL, none of
\* them meeting a read or write failure, executes the function at most once,
\* and exactly once when its first call found no entry.
CachedCallContract ==
    /\ cache.last # None =>
          /\ FoundFresh(cache.last[1]) =>
                /\ ~cache.last[1].executed
                /\ cache.last[1].result = cache.last[1].before[1].data
                /\ cache.files[_generate_cache_key(FuncName, cache.last[1].arg)]
                      = cache.last[1].before
          /\ ~FoundFresh(cache.last[1]) =>
                /\ cache.last[1].executed
                /\ cache.last[1].result = func(cache.last[1].arg, cache.last[1].at)
                /\ cache.files[_generate_cache_key(FuncName, cache.last[1].arg)]
                      = IF cache.last[1].write_failed
                        THEN cache.last[1].before
                        ELSE FreshEntry(cache.last[1])
    /\ StreakWithinTtl /\ ~cache.streak[1].failed =>
          /\ cache.streak[1].executions <= 1
          /\ cache.streak[1].cold => cache.streak[1].executions = 1

\* the third identical call within the TTL of a run that began with no
\* entry: it is answered from the entry the first call stored
CachedCallContractWitness ==
    /\ cache.last # None
    /\ StreakWithinTtl
    /\ cache.streak[1].cold
    /\ ~cache.streak[1].failed
    /\ cache.streak[1].calls = 3
    /\ cache.streak[1].executions = 1
    /\ ~cache.last[1].executed
    /\ cache.last[1].result = func(cache.last[1].arg, cache.streak[1].start)

\* C27 as stated: every call that does not find a fresh entry stores a fresh
\* entry, and consecutive identical calls within the TTL that began with no
\* entry execute the function exactly once, whatever the file operations do
CachedCallAlwaysStores ==
    /\ cache.last # None /\ ~FoundFresh(cache.last[1]) =>
          cache.files[_generate_cache_key(FuncName, cache.last[1].arg)]
              = FreshEntry(cache.last[1])
    /\ StreakWithinTtl /\ cache.streak[1].cold =>
          cache.streak[1].executions = 1

====
